---- MODULE Spec2Model ----
(***************************************************************************)
(* screen-timer: the policy state machine (policy.py), the processor       *)
(* worker that feeds it classification results (processor.py), the         *)
(* watchdog context that feeds it idle signals (streaming.py) and the      *)
(* capture scheduler's interval map it tightens and restores               *)
(* (screenshot.py).                                                        *)
(*                                                                         *)
(* Time is counted in whole seconds since midnight of one day.  The two    *)
(* execution contexts that call PolicyManager are the threads "worker"     *)
(* (FrameProcessor._worker_loop) and "watchdog"                            *)
(* (ScreenCaptureManager._watchdog_loop).  A call is a sequence of steps,  *)
(* one per access to state the other context can touch or per blocking     *)
(* call to an external command; pc[t] is the position of thread t and      *)
(* loc[t] holds the locals of its call.                                    *)
(*                                                                         *)
(*   Spec      every operation runs to completion before the next one      *)
(*             starts: the contract of each handler taken as a whole.      *)
(*   RaceSpec  the steps of the two contexts interleave freely, as the     *)
(*             source lets them (PolicyManager takes no lock).             *)
(***************************************************************************)
EXTENDS Integers, Sequences, FiniteSets

VARIABLES
    clock,               \* datetime.now(): seconds since midnight
    violations,          \* PolicyManager._violations
    last_label,          \* PolicyManager._last_label
    interval_tightened,  \* PolicyManager._interval_tightened (the ids mapped to True)
    display_intervals,   \* ScreenshotCaptureManager._display_intervals
    pc,                  \* position of each thread
    loc,                 \* locals of each thread's current call
    proc,                \* FrameProcessor: its queue, sampling gate, worker and shutdown
    cap                  \* ScreenshotCaptureManager: its maps but the interval
                         \* map, its capture loop, start and stop

vars == <<clock, violations, last_label, interval_tightened, display_intervals, pc, loc, proc, cap>>

\* the state of PolicyManager, of the interval map and of the two contexts
\* that call the policy
policy_vars == <<clock, violations, last_label, interval_tightened, display_intervals, pc, loc>>

----------------------------------------------------------------------------
(* Bounds of the model *)

\* last second of the day the clock reaches under Spec
MaxClock == 8

\* last second the clock reaches under RaceSpec
RaceMaxClock == 3

\* the number of frames handed to FrameProcessor.handle_frame under ProcSpec
MaxFrames == 4

\* the largest frame timestamp under ProcSpec
MaxTimestamp == 4

\* the number of frames handed to the processor under ProcLiveSpec
MaxLiveFrames == 2

\* the largest SCREEN_TIMER_QUEUE_SIZE under ProcSpec
MaxQueueSize == 2

\* the captures the capture loop starts are counted up to this number
MaxCaptures == 2

\* the largest interval passed to tighten_interval under CtlSpec
MaxInterval == 5

----------------------------------------------------------------------------
(* Configuration.  Every value is one the program can be started with:     *)
(* SCREEN_TIMER_VIOLATION_GRACE=3, SCREEN_TIMER_REMINDER_INTERVAL=2,       *)
(* --capture-interval 1.5, SCREEN_TIMER_VIOLATION_CAPTURE_INTERVAL=0.5,    *)
(* and a PolicyConfig with off_hours_start = 00:00:04, off_hours_grace =   *)
(* 2 s.  The scheduler's intervals and elapsed times are counted in half   *)
(* seconds.                                                                *)

\* PolicyConfig.violation_grace, seconds
ViolationGrace == 3

\* PolicyConfig.reminder_interval, seconds
ReminderInterval == 2

\* PolicyConfig.off_hours_start, seconds since midnight
OffHoursStart == 4

\* PolicyConfig.off_hours_grace, seconds
OffHoursGrace == 2

\* workday_cutoff, 17:00: a field of PolicyConfig that no line of the policy
\* reads
WorkdayCutoff == 4

\* the confidence threshold 0.6, in hundredths
ConfidenceThreshold == 60

\* ScreenshotCaptureManager._base_interval, half seconds
BaseInterval == 3

\* _handle_capture_error refreshes no sooner than 0.5 s after _last_refresh
RefreshThrottle == 1

\* _REFRESH_BACKOFF_SECONDS = 2.0, half seconds
RefreshBackoff == 4

\* ScreenCaptureManager._watchdog_check_interval = 5.0: the watchdog's times
\* are counted in check intervals
WatchdogCheckInterval == 1

\* ScreenCaptureManager._watchdog_window = 20.0, check intervals
WatchdogWindow == 4

\* ScreenCaptureManager._restart_backoff = 30.0, check intervals
RestartBackoff == 6

\* PolicyConfig.violation_capture_interval, half seconds
ViolationCaptureInterval == 1

\* ProcessorOptions.sample_interval, seconds (SCREEN_TIMER_SAMPLE_INTERVAL=2)
SampleInterval == 2

\* the display ids the OS can enumerate
Displays == {1, 2}

Threads == {"worker", "watchdog"}

----------------------------------------------------------------------------
(* Result texts.  A text is the shape _parse_result distinguishes, around   *)
(* the JSON value it carries.                                               *)

\* a JSON member: its kind, and its text or its number
Absent == [kind |-> "absent", s |-> "", n |-> 0]
Null == [kind |-> "null", s |-> "", n |-> 0]
Str(s) == [kind |-> "str", s |-> s, n |-> 0]
Num(n) == [kind |-> "num", s |-> "", n |-> n]
Other == [kind |-> "other", s |-> "", n |-> 0]

\* values of the "label" member
LabelValues == {Absent, Null, Str("entertainment"), Str("Entertainment"), Str("work"), Num(1)}

\* values of the "confidence" member: numbers are in hundredths; Str("0.6")
\* is a numeric string, Str("high") is not
ConfidenceValues == {Absent, Null, Num(59), Num(60), Str("0.6"), Str("high"), Other}

JsonObjects == [type : {"object"}, label : LabelValues, confidence : ConfidenceValues]

JsonArray == [type |-> "array", label |-> Absent, confidence |-> Absent]
JsonNumber == [type |-> "number", label |-> Absent, confidence |-> Absent]
JsonNull == [type |-> "null", label |-> Absent, confidence |-> Absent]

JsonValues == JsonObjects \cup {JsonArray, JsonNumber, JsonNull}

\* the forms of a response: the JSON alone, in a ```json fence, followed by
\* "Reason: ...", preceded by prose, or no JSON at all
TextForms == {"bare", "fenced", "reason", "prose"}

\* text with no "{" in it, and text with a "{" that starts no JSON
Garbage == [form |-> "garbage", json |-> JsonNull]
BraceGarbage == [form |-> "brace_garbage", json |-> JsonNull]

\* the JSON values tried in every form: an object that counts as
\* entertainment, one that does not, an array and null
CommonJson ==
    {[type |-> "object", label |-> Str("entertainment"), confidence |-> Num(60)],
     [type |-> "object", label |-> Str("work"), confidence |-> Num(60)],
     JsonArray, JsonNull}

\* the texts VLMClient.classify returns: every JSON value alone, some in each
\* other form, and the two kinds of text without JSON
ResultTexts ==
    [form : {"bare"}, json : JsonValues]
        \cup [form : TextForms, json : CommonJson]
        \cup {Garbage, BraceGarbage}

\* VLMClient.classify returned None or an empty string
NoText == [form |-> "none", json |-> JsonNull]

\* _parse_result returns None
NoResult == [type |-> "none", label |-> Absent, confidence |-> Absent]

\* a parser that is not the source's: it takes a text without JSON for an
\* empty object
ParseResult_Lenient(text) ==
    IF text.form \in {"garbage", "brace_garbage"}
    THEN [type |-> "object", label |-> Absent, confidence |-> Absent]
    ELSE IF text.json = JsonNull \/ (text.form = "prose" /\ text.json.type # "object")
    THEN NoResult
    ELSE text.json

\* _parse_result: "no result" or the Python value json.loads returns
ParseResult(text) ==
    CASE text.form \in {"bare", "fenced", "reason"} ->
            \* the candidate is the JSON text: the first json.loads succeeds
            IF text.json = JsonNull THEN NoResult ELSE text.json
      [] text.form = "prose" ->
            \* the first json.loads fails; retried from the first "{", which
            \* only an object's text has
            IF text.json.type = "object" THEN text.json ELSE NoResult
      [] OTHER -> NoResult

\* str.lower
Lower(s) == IF s = "Entertainment" THEN "entertainment" ELSE s

\* parsed.get("label", "").lower() raises unless the value is a string
LabelRaises(parsed) ==
    parsed.label.kind \notin {"absent", "str"}

LabelOf(parsed) ==
    IF parsed.label.kind = "absent" THEN "" ELSE Lower(parsed.label.s)

\* float(parsed.get("confidence")) raises on a value that is no number
ConfidenceRaises(parsed) ==
    \/ parsed.confidence.kind = "other"
    \/ parsed.confidence.kind = "str" /\ parsed.confidence.s # "0.6"

ConfidenceOf(parsed) ==
    CASE parsed.confidence.kind \in {"absent", "null"} -> 0
      [] parsed.confidence.kind = "str" -> 60
      [] OTHER -> parsed.confidence.n

\* lines 67-68 raise: on a value without .get, a label without .lower, or a
\* confidence float() rejects
HandlerRaises(parsed) ==
    \/ parsed.type # "object"
    \/ LabelRaises(parsed)
    \/ ConfidenceRaises(parsed)

\* a test that is not the source's: the confidence is not looked at
Qualifies_LabelOnly(label, confidence) ==
    label = "entertainment"

\* line 73, negated: the result counts as entertainment
Qualifies(label, confidence) ==
    ~(label # "entertainment" \/ confidence < ConfidenceThreshold)

\* windows that are not the source's: one that opens after off_hours_start,
\* one that closes before off_hours_start + off_hours_grace
WithinOffHoursGrace_AfterStart(now) ==
    IF now <= OffHoursStart THEN FALSE
    ELSE now - OffHoursStart <= OffHoursGrace

WithinOffHoursGrace_HalfOpen(now) ==
    IF now < OffHoursStart THEN FALSE
    ELSE now - OffHoursStart < OffHoursGrace

\* a window that is not the source's: enforcement starts at workday_cutoff
WithinOffHoursGrace_BeforeCutoff(now) ==
    IF now < WorkdayCutoff THEN TRUE
    ELSE IF now < OffHoursStart THEN FALSE
    ELSE now - OffHoursStart <= OffHoursGrace

\* _within_off_hours_grace
WithinOffHoursGrace(now) ==
    IF now < OffHoursStart THEN FALSE
    ELSE now - OffHoursStart <= OffHoursGrace

----------------------------------------------------------------------------
(* State of the policy and of the scheduler's interval map *)

\* no entry in _violations
NoViolation == [first_detected |-> -1, last_notified |-> -1, notified |-> FALSE, locks |-> 0]

\* a violation that is not the source's: created as never notified
NewViolation_Unnotified(now) ==
    [first_detected |-> now, last_notified |-> -1, notified |-> FALSE, locks |-> 0]

\* _ViolationState(first_detected=now, last_notified=now, notified=True).
\* locks is not a field of the source: it counts the lock commands run for
\* this violation object.
NewViolation(now) ==
    [first_detected |-> now, last_notified |-> now, notified |-> TRUE, locks |-> 0]

\* no entry in _last_label
NoLabel == [label |-> "", confidence |-> -1]

\* the local `state` of a handler: None, the object _violations holds for
\* the display, or an object that was popped from the map after the handler
\* read it
NoRef == [ref |-> "none", obj |-> NoViolation]
LiveRef == [ref |-> "live", obj |-> NoViolation]
Detached(v) == [ref |-> "detached", obj |-> v]

\* locals of a call that has not started.  d, now and state are the locals
\* of the source; the rest records the call for the properties below: what
\* kind of call it is, the text it was given (form, json_type, label,
\* confidence), the violation it read (seen), the branch it took (path) and
\* the commands and controller calls it issued (out).
InitLoc ==
    [d |-> 0, now |-> 0, state |-> NoRef, path |-> "", out |-> <<>>,
     call |-> "", form |-> "", json_type |-> "", label |-> "", confidence |-> 0,
     seen |-> NoViolation]

\* the object the local `state` of thread t names
Obj(t) ==
    IF loc[t].state.ref = "live" THEN violations[loc[t].d] ELSE loc[t].state.obj

\* a thread is inside a PolicyManager call
MidCall(t) == pc[t] \notin {"idle", "ret", "dead"}

\* no PolicyManager call and no other operation is in progress
Quiet == \A t \in Threads : pc[t] \in {"idle", "dead"}

\* a tighten that is not the source's: it takes any interval
TightenInterval_Any(intervals, d, interval) ==
    IF d \notin DOMAIN intervals THEN intervals
    ELSE [intervals EXCEPT ![d] = interval]

\* ScreenshotCaptureManager.tighten_interval
TightenInterval(intervals, d, interval) ==
    IF interval <= 0 THEN intervals
    ELSE IF d \notin DOMAIN intervals THEN intervals
    ELSE IF intervals[d] = interval THEN intervals
    ELSE [intervals EXCEPT ![d] = interval]

\* a restore that is not the source's: at the base interval it tightens
RestoreInterval_Toggle(intervals, d) ==
    IF d \notin DOMAIN intervals THEN intervals
    ELSE [intervals EXCEPT ![d] =
             IF @ = BaseInterval THEN ViolationCaptureInterval ELSE BaseInterval]

\* ScreenshotCaptureManager.restore_interval
RestoreInterval(intervals, d) ==
    IF d \notin DOMAIN intervals THEN intervals
    ELSE IF intervals[d] = BaseInterval THEN intervals
    ELSE [intervals EXCEPT ![d] = BaseInterval]

\* a refresh that is not the source's: every display gets the base interval
RefreshedIntervals_Reset(intervals, new_ids) ==
    [d \in new_ids |-> BaseInterval]

\* ScreenshotCaptureManager._refresh_displays on the interval map: a removed
\* display loses its entry, an added one starts at the base interval
RefreshedIntervals(intervals, new_ids) ==
    [d \in new_ids |-> IF d \in DOMAIN intervals THEN intervals[d] ELSE BaseInterval]

\* no frame in the worker's hands
NoFrame == [id |-> 0, d |-> 0, ts |-> 0]

\* FrameProcessor.__init__ with ProcessorOptions.queue_size = size: the queue
\* is empty, no display has a last sample, the stop event is clear and the
\* worker thread is at the test of its loop.  next_id, forwarded, at_stop,
\* dropped and log are not fields of the source: they number the frames,
\* keep the timestamps put on the queue for each display, the frames queued
\* when the stop event was set, the frames dropped on a full queue, and the
\* worker's calls of the classifier and of the policy in their order.
NewProcessor(size) ==
    [queue_size |-> size,
     task_queue |-> <<>>,
     last_sample |-> [d \in Displays |-> 0],
     drop_warnings |-> 0,
     stop_event |-> FALSE,
     worker |-> "test",
     frame |-> NoFrame,
     shutdown |-> "none",
     next_id |-> 1,
     forwarded |-> [d \in Displays |-> <<>>],
     at_stop |-> {},
     dropped |-> {},
     log |-> <<>>]

\* an error message, as the set of the phrases _handle_capture_error looks
\* for that its lower-cased text contains
ErrorTexts ==
    {{}, {"only"}, {"valid value"}, {"only", "valid value"},
     {"invalid display"}, {"missing display index"}, {"no displays"}}

\* no message
NoMessage == {}

\* what _capture_png returns: the PNG bytes, or an error message
CaptureResults ==
    {[png |-> TRUE, error |-> NoMessage]}
    \cup {[png |-> FALSE, error |-> e] : e \in ErrorTexts}

\* _capture_png, lines 175-178: the display has no index
MissingIndex == [png |-> FALSE, error |-> {"missing display index"}]

\* the largest interval of a display in a running agent: the elapsed times
\* of the scheduler are counted up to it
MaxElapsed ==
    IF ViolationCaptureInterval > BaseInterval THEN ViolationCaptureInterval ELSE BaseInterval

\* a stopwatch that stands still at max
Later(n, max) == IF n < max THEN n + 1 ELSE max

\* no enumeration yet.  cause is "start", "empty" or "error", text the
\* message of the capture error that led to it, and flip changes at every
\* enumeration.
NoProbe == [cause |-> "none", text |-> NoMessage, flip |-> FALSE]

\* no pass of the capture loop yet: due is due_displays of the pass, tried
\* the number of _capture_png calls of the pass for each display, failed the
\* displays whose capture returned no PNG and handed those whose frame went
\* to the frame handler
NoPass ==
    [due |-> {}, tried |-> [d \in Displays |-> 0], failed |-> {}, handed |-> {}]

\* ScreenshotCaptureManager.__init__: the maps are empty and no thread
\* runs.  last_capture is the key set of _last_capture and since the time
\* elapsed from each of its values (0 without a key); age is the time elapsed
\* from _last_refresh.  started and agent are the outcome of start() and of
\* main().  The other fields are not fields of the source: attempts counts
\* the captures started, late tells whether the loop delivered a frame
\* after stop() returned, requested is for each display the interval of the
\* last tighten_interval call with a positive interval since the last
\* restore_interval call (0 if there is none), captured the displays that
\* had a capture end and done the time elapsed from the end of the last one
\* (0 for the others), probe the last
\* enumeration and probe_age the time elapsed from it, pass the pass of the
\* capture loop in progress or just ended, fresh the displays an enumeration
\* added since the capture loop last computed its due displays.
NewScheduler ==
    [started |-> "new",
     agent |-> "starting",
     display_ids |-> {},
     display_indices |-> {},
     last_capture |-> {},
     since |-> [d \in Displays |-> 0],
     stop_event |-> FALSE,
     loop |-> "none",
     pending |-> {},
     cur |-> 0,
     has_index |-> FALSE,
     age |-> RefreshBackoff,
     stop |-> "none",
     attempts |-> 0,
     late |-> FALSE,
     requested |-> [d \in Displays |-> 0],
     captured |-> {},
     done |-> [d \in Displays |-> 0],
     probe |-> NoProbe,
     probe_age |-> RefreshBackoff,
     pass |-> NoPass,
     fresh |-> {}]

\* the scheduler of a running agent: start() found the displays ids
RunningScheduler(ids) ==
    [NewScheduler EXCEPT !.started = "running", !.agent = "running",
                         !.display_ids = ids, !.display_indices = ids,
                         !.last_capture = ids,
                         !.since = [d \in Displays |-> IF d \in ids THEN BaseInterval ELSE 0],
                         !.loop = "test", !.age = 0]

\* _refresh_displays on the other maps: the ids and the indices are the
\* enumeration's, a removed display loses its last capture, an added one
\* gets now - base_interval, and _last_refresh is now
RefreshedScheduler(c, new_ids) ==
    [c EXCEPT !.display_ids = new_ids,
              !.display_indices = new_ids,
              !.last_capture = (@ \ (c.display_ids \ new_ids)) \cup (new_ids \ c.display_ids),
              !.since = [d \in Displays |->
                            IF d \in c.display_ids \ new_ids THEN 0
                            ELSE IF d \in new_ids \ c.display_ids THEN BaseInterval
                            ELSE @[d]],
              !.age = 0]

\* _refresh_displays in start() and in the capture loop: the enumeration
\* returns found, and it is recorded
Probed(c, found, cause, text) ==
    [RefreshedScheduler(c, found) EXCEPT
        !.probe = [cause |-> cause, text |-> text, flip |-> ~@.flip],
        !.probe_age = 0,
        !.fresh = (@ \cap found) \cup (found \ c.display_ids)]

Init ==
    /\ proc = NewProcessor(1)
    /\ clock = 0
    /\ violations = [d \in Displays |-> NoViolation]
    /\ last_label = [d \in Displays |-> NoLabel]
    /\ interval_tightened = {}
    \* start() found at least one display
    /\ \E ids \in SUBSET Displays :
          /\ ids # {}
          /\ display_intervals = RefreshedIntervals(<<>>, ids)
          /\ cap = RunningScheduler(ids)
    /\ pc = [t \in Threads |-> "idle"]
    /\ loc = [t \in Threads |-> InitLoc]

----------------------------------------------------------------------------
(* Steps shared by the two handlers *)

\* the thread goes to position p with locals l
Goto(t, p, l) ==
    /\ pc' = [pc EXCEPT ![t] = p]
    /\ loc' = [loc EXCEPT ![t] = l]
    /\ UNCHANGED <<proc, cap>>

\* the call returns: its locals stay readable until Return
Ret(t, l) == Goto(t, "ret", [l EXCEPT !.state = NoRef])

\* the locals with one more command issued or controller call made
Emit(l, event) == [l EXCEPT !.out = Append(@, event)]

\* self._violations.pop(display_id, None) by thread t: a handler of the
\* other thread that holds the popped object keeps it
Pop(t, next) ==
    LET d == loc[t].d
        holds(u) == u # t /\ MidCall(u) /\ loc[u].d = d /\ loc[u].state.ref = "live"
    IN  /\ violations' = [violations EXCEPT ![d] = NoViolation]
        /\ UNCHANGED <<proc, cap>>
        /\ pc' = [pc EXCEPT ![t] = next]
        /\ loc' = [u \in Threads |->
                     IF holds(u) THEN [loc[u] EXCEPT !.state = Detached(violations[d])]
                     ELSE loc[u]]

\* _lock_screen runs the lock command, for the violation `state` names
LockScreen(t, next) ==
    /\ pc' = [pc EXCEPT ![t] = next]
    /\ UNCHANGED <<proc, cap>>
    /\ IF loc[t].state.ref = "live"
       THEN /\ violations' = [violations EXCEPT ![loc[t].d].locks = @ + 1]
            /\ loc' = [loc EXCEPT ![t] = Emit(@, "lock")]
       ELSE /\ violations' = violations
            /\ loc' = [loc EXCEPT ![t] = Emit([@ EXCEPT !.state.obj.locks = @ + 1], "lock")]

\* state.last_notified = now
SetLastNotified(t) ==
    IF loc[t].state.ref = "live"
    THEN violations' = [violations EXCEPT ![loc[t].d].last_notified = loc[t].now]
    ELSE violations' = violations

\* where the handler goes on when _restore_interval returns: line 78 after the
\* call of line 77, the end of the handler after the others
AfterRestore(t, l) ==
    IF l.path = "benign" THEN Goto(t, "label_pop", l) ELSE Ret(t, l)

\* _restore_interval, lines 220-224: the controller is set; the flag is popped
RestoreFlag(t) ==
    /\ pc[t] = "restore_flag"
    /\ interval_tightened' = interval_tightened \ {loc[t].d}
    /\ IF loc[t].d \in interval_tightened
       THEN Goto(t, "restore_ctl", loc[t])
       ELSE AfterRestore(t, loc[t])
    /\ UNCHANGED <<clock, violations, last_label, display_intervals>>

\* _restore_interval, line 225
RestoreCtl(t) ==
    /\ pc[t] = "restore_ctl"
    /\ display_intervals' = RestoreInterval(display_intervals, loc[t].d)
    /\ AfterRestore(t, Emit(loc[t], "restore"))
    /\ UNCHANGED <<clock, violations, last_label, interval_tightened>>

\* the handler has returned to its caller
Return(t) ==
    /\ pc[t] = "ret"
    /\ Goto(t, "idle", InitLoc)
    /\ UNCHANGED <<clock, violations, last_label, interval_tightened, display_intervals>>

----------------------------------------------------------------------------
(* The worker: _worker_loop takes a sample of display d, _process_sample    *)
(* classifies it and PolicyManager.handle_frame_result handles the text     *)

\* a comparison that is not the source's: the grace must be exceeded
FrameGraceExceeded_Strict(now, first_detected) ==
    now - first_detected > ViolationGrace

\* a comparison that is not the source's: the elapsed time is taken with the
\* wrong sign
FrameGraceExceeded_Reversed(now, first_detected) ==
    first_detected - now >= ViolationGrace

\* line 108: elapsed >= self._config.violation_grace
FrameGraceExceeded(now, first_detected) ==
    now - first_detected >= ViolationGrace

\* line 117: (now - state.last_notified) >= self._config.reminder_interval
FrameReminderDue(now, last_notified) ==
    now - last_notified >= ReminderInterval

\* the entry self._last_label[display_id] = (label, confidence) of line 71
LabelEntry(label, confidence) == [label |-> label, confidence |-> confidence]

\* handle_frame_result, lines 62-95, on a text that parses and raises nothing
FrameEnter(d, parsed, l0) ==
    LET label == LabelOf(parsed)
        confidence == ConfidenceOf(parsed)
        has == violations[d] # NoViolation
        l == [l0 EXCEPT !.now = clock, !.call = "handled",
                        !.label = parsed.label.s, !.confidence = confidence,
                        !.seen = violations[d]]
    IN  IF ~Qualifies(label, confidence)
        THEN IF has
             THEN /\ last_label' = [last_label EXCEPT ![d] = LabelEntry(label, confidence)]
                  /\ Goto("worker", "pop", [l EXCEPT !.path = "benign"])
             ELSE /\ last_label' = [last_label EXCEPT ![d] = NoLabel]
                  /\ Ret("worker", [l EXCEPT !.path = "benign"])
        ELSE /\ last_label' = [last_label EXCEPT ![d] = LabelEntry(label, confidence)]
             /\ IF WithinOffHoursGrace(clock)
                THEN IF has
                     THEN Goto("worker", "pop", [l EXCEPT !.path = "offhours"])
                     ELSE Ret("worker", [l EXCEPT !.path = "offhours"])
                ELSE IF has
                     THEN Goto("worker", "decide", [l EXCEPT !.state = LiveRef])
                     ELSE Goto("worker", "warn", [l EXCEPT !.path = "create"])

\* _process_sample, lines 128-144, and handle_frame_result up to its first
\* read of _violations
WorkerStart(d, text) ==
    /\ pc["worker"] = "idle"
    /\ LET parsed == ParseResult(text)
           l == [InitLoc EXCEPT !.d = d, !.form = text.form, !.json_type = text.json.type]
       IN  IF text = NoText
           THEN /\ Ret("worker", [l EXCEPT !.call = "no_result"])
                /\ last_label' = last_label
           ELSE IF parsed = NoResult
           THEN /\ Ret("worker", [l EXCEPT !.call = "unparsed"])
                /\ last_label' = last_label
           ELSE IF HandlerRaises(parsed)
           THEN \* the exception leaves _worker_loop: the thread ends
                /\ Goto("worker", "dead", [l EXCEPT !.call = "raised"])
                /\ last_label' = last_label
           ELSE FrameEnter(d, parsed, l)
    /\ UNCHANGED <<clock, violations, interval_tightened, display_intervals>>

\* line 102: the first warning
FrameWarn ==
    /\ pc["worker"] = "warn"
    /\ Goto("worker", "create", Emit(loc["worker"], "warning"))
    /\ UNCHANGED <<clock, violations, last_label, interval_tightened, display_intervals>>

\* line 103
FrameCreate ==
    /\ pc["worker"] = "create"
    /\ violations' = [violations EXCEPT ![loc["worker"].d] = NewViolation(loc["worker"].now)]
    /\ Goto("worker", "tighten_check", loc["worker"])
    /\ UNCHANGED <<clock, last_label, interval_tightened, display_intervals>>

\* _tighten_interval, lines 208-213: the controller is set and a tightened
\* interval is configured
TightenCheck ==
    /\ pc["worker"] = "tighten_check"
    /\ IF loc["worker"].d \in interval_tightened
       THEN Ret("worker", loc["worker"])
       ELSE Goto("worker", "tighten_ctl", loc["worker"])
    /\ UNCHANGED <<clock, violations, last_label, interval_tightened, display_intervals>>

\* _tighten_interval, lines 214-216
TightenCtl ==
    /\ pc["worker"] = "tighten_ctl"
    /\ display_intervals' =
          TightenInterval(display_intervals, loc["worker"].d, ViolationCaptureInterval)
    /\ Goto("worker", "tighten_flag", Emit(loc["worker"], "tighten"))
    /\ UNCHANGED <<clock, violations, last_label, interval_tightened>>

\* _tighten_interval, line 217
TightenFlag ==
    /\ pc["worker"] = "tighten_flag"
    /\ interval_tightened' = interval_tightened \cup {loc["worker"].d}
    /\ Ret("worker", loc["worker"])
    /\ UNCHANGED <<clock, violations, last_label, display_intervals>>

\* lines 107-117: the choice among lock, reminder and nothing
FrameDecide ==
    /\ pc["worker"] = "decide"
    /\ LET obj == Obj("worker")
           l == [loc["worker"] EXCEPT !.seen = obj]
       IN  IF FrameGraceExceeded(l.now, obj.first_detected)
           THEN Goto("worker", "lock", [l EXCEPT !.path = "lock"])
           ELSE IF FrameReminderDue(l.now, obj.last_notified)
           THEN Goto("worker", "remind", [l EXCEPT !.path = "remind"])
           ELSE Ret("worker", [l EXCEPT !.path = "noop"])
    /\ UNCHANGED <<clock, violations, last_label, interval_tightened, display_intervals>>

\* line 114
FrameLock ==
    /\ pc["worker"] = "lock"
    /\ LockScreen("worker", "pop")
    /\ UNCHANGED <<clock, last_label, interval_tightened, display_intervals>>

\* lines 76, 87 and 115
FramePop ==
    /\ pc["worker"] = "pop"
    /\ Pop("worker", "restore_flag")
    /\ UNCHANGED <<clock, last_label, interval_tightened, display_intervals>>

\* line 78
FrameLabelPop ==
    /\ pc["worker"] = "label_pop"
    /\ last_label' = [last_label EXCEPT ![loc["worker"].d] = NoLabel]
    /\ Ret("worker", loc["worker"])
    /\ UNCHANGED <<clock, violations, interval_tightened, display_intervals>>

\* line 123: the reminder
FrameRemind ==
    /\ pc["worker"] = "remind"
    /\ Goto("worker", "set_notified", Emit(loc["worker"], "reminder"))
    /\ UNCHANGED <<clock, violations, last_label, interval_tightened, display_intervals>>

\* line 124
FrameSetNotified ==
    /\ pc["worker"] = "set_notified"
    /\ SetLastNotified("worker")
    /\ Ret("worker", loc["worker"])
    /\ UNCHANGED <<clock, last_label, interval_tightened, display_intervals>>

----------------------------------------------------------------------------
(* The watchdog: _watchdog_loop finds display d idle and the idle callback  *)
(* (FrameProcessor.handle_stream_idle) calls                                *)
(* PolicyManager.handle_stream_idle                                         *)

\* a comparison that is not the source's: the idle path waits a second more
\* than the classification path before it locks
IdleGraceExceeded_Late(now, first_detected) ==
    now - first_detected > ViolationGrace

\* line 153: elapsed >= self._config.violation_grace
IdleGraceExceeded(now, first_detected) ==
    now - first_detected >= ViolationGrace

\* line 164: (now - state.last_notified) >= self._config.reminder_interval
IdleReminderDue(now, last_notified) ==
    now - last_notified >= ReminderInterval

\* an idle handler that is not the source's: it opens a violation for a
\* display that has none
IdleAbsent_Creates(d, l) ==
    /\ Ret("watchdog", [l EXCEPT !.path = "absent"])
    /\ violations' = [violations EXCEPT ![d] = NewViolation(l.now)]

\* what handle_stream_idle does when line 130 finds no violation (line 132)
IdleAbsent(d, l) ==
    /\ Ret("watchdog", [l EXCEPT !.path = "absent"])
    /\ violations' = violations

\* lines 129-141, to the first access after the read of _violations
IdleStart(d) ==
    /\ pc["watchdog"] = "idle"
    /\ LET l == [InitLoc EXCEPT !.d = d, !.now = clock, !.call = "idle",
                                !.seen = violations[d]]
       IN  IF violations[d] = NoViolation
           THEN IdleAbsent(d, l)
           ELSE /\ violations' = violations
                /\ IF WithinOffHoursGrace(clock)
                   THEN Goto("watchdog", "pop", [l EXCEPT !.state = LiveRef, !.path = "offhours"])
                   ELSE Goto("watchdog", "decide", [l EXCEPT !.state = LiveRef])
    /\ UNCHANGED <<clock, last_label, interval_tightened, display_intervals>>

\* lines 152-164: the choice among lock, reminder and nothing
IdleDecide ==
    /\ pc["watchdog"] = "decide"
    /\ LET obj == Obj("watchdog")
           l == [loc["watchdog"] EXCEPT !.seen = obj]
       IN  IF IdleGraceExceeded(l.now, obj.first_detected)
           THEN Goto("watchdog", "lock", [l EXCEPT !.path = "lock"])
           ELSE IF IdleReminderDue(l.now, obj.last_notified)
           THEN Goto("watchdog", "remind", [l EXCEPT !.path = "remind"])
           ELSE Ret("watchdog", [l EXCEPT !.path = "noop"])
    /\ UNCHANGED <<clock, violations, last_label, interval_tightened, display_intervals>>

\* line 159
IdleLock ==
    /\ pc["watchdog"] = "lock"
    /\ LockScreen("watchdog", "pop")
    /\ UNCHANGED <<clock, last_label, interval_tightened, display_intervals>>

\* lines 139 and 160
IdlePop ==
    /\ pc["watchdog"] = "pop"
    /\ Pop("watchdog", "restore_flag")
    /\ UNCHANGED <<clock, last_label, interval_tightened, display_intervals>>

\* lines 165-168: the reminder
IdleRemind ==
    /\ pc["watchdog"] = "remind"
    /\ Goto("watchdog", "set_notified", Emit(loc["watchdog"], "reminder"))
    /\ UNCHANGED <<clock, violations, last_label, interval_tightened, display_intervals>>

\* line 169
IdleSetNotified ==
    /\ pc["watchdog"] = "set_notified"
    /\ SetLastNotified("watchdog")
    /\ Ret("watchdog", loc["watchdog"])
    /\ UNCHANGED <<clock, last_label, interval_tightened, display_intervals>>

----------------------------------------------------------------------------
(* The clock and the scheduler *)

\* a second passes
Tick(bound) ==
    /\ clock < bound
    /\ clock' = clock + 1
    /\ UNCHANGED <<violations, last_label, interval_tightened, display_intervals, pc, loc, proc, cap>>

\* _refresh_displays after startup: the enumeration returns new_ids
RefreshDisplays(new_ids) ==
    /\ display_intervals' = RefreshedIntervals(display_intervals, new_ids)
    /\ cap' = RefreshedScheduler(cap, new_ids)
    /\ UNCHANGED <<clock, violations, last_label, interval_tightened, pc, loc, proc>>

----------------------------------------------------------------------------
(* FrameProcessor: handle_frame runs in the capture context, _worker_loop   *)
(* in the worker thread, shutdown in the main thread                        *)

\* a queue that is not the source's: it is never full
QueueFull_Never(size, q) ==
    FALSE

\* queue.Queue(maxsize).put_nowait raises queue.Full: a maxsize of zero or
\* less makes the queue unbounded
QueueFull(size, q) ==
    size > 0 /\ Len(q) >= size

\* a gate that is not the source's: it forgets the last sample
GatePasses_FromZero(ts, last_ts) ==
    ~(ts < SampleInterval)

\* handle_frame, lines 54-56, negated: the frame passes the sampling gate
GatePasses(ts, last_ts) ==
    ~(ts - last_ts < SampleInterval)

\* a queue that is not the source's: get takes the newest frame
Take_Last(q) ==
    [frame |-> q[Len(q)], rest |-> SubSeq(q, 1, Len(q) - 1)]

\* queue.get: the frame taken and the frames left
Take(q) ==
    [frame |-> Head(q), rest |-> Tail(q)]

\* the ids of the frames on the queue
QueuedIds(q) == {q[i].id : i \in 1..Len(q)}

\* FrameProcessor.handle_frame(frame) for a frame of display d stamped ts
HandleFrame(d, ts) ==
    /\ proc.next_id <= MaxFrames
    /\ proc.shutdown = "none"
    /\ LET frame == [id |-> proc.next_id, d |-> d, ts |-> ts]
           seen == [proc EXCEPT !.next_id = @ + 1]
           gated == [seen EXCEPT !.last_sample[d] = ts]
       IN  proc' =
             IF SampleInterval <= 0 THEN seen
             ELSE IF ~GatePasses(ts, proc.last_sample[d]) THEN seen
             ELSE IF QueueFull(proc.queue_size, proc.task_queue)
             THEN [gated EXCEPT !.drop_warnings = @ + 1,
                                !.dropped = @ \cup {frame.id}]
             ELSE [gated EXCEPT !.task_queue = Append(@, frame),
                                !.forwarded[d] = Append(@, ts)]
    /\ UNCHANGED <<policy_vars, cap>>

\* a worker that is not the source's: it does not look at the stop event
WorkerTest_Deaf ==
    /\ proc.worker = "test"
    /\ proc' = [proc EXCEPT !.worker = "get"]
    /\ UNCHANGED <<policy_vars, cap>>

\* _worker_loop, line 100: the test of the stop event
WorkerTest ==
    /\ proc.worker = "test"
    /\ proc' = [proc EXCEPT !.worker = IF proc.stop_event THEN "exited" ELSE "get"]
    /\ UNCHANGED <<policy_vars, cap>>

\* _worker_loop, lines 101-104: get(timeout=0.5) returns a frame or raises
\* queue.Empty
WorkerGet ==
    /\ proc.worker = "get"
    /\ proc' =
         IF proc.task_queue = <<>>
         THEN [proc EXCEPT !.worker = "test"]
         ELSE [proc EXCEPT !.worker = "process",
                           !.frame = Take(proc.task_queue).frame,
                           !.task_queue = Take(proc.task_queue).rest]
    /\ UNCHANGED <<policy_vars, cap>>

\* _process_sample, lines 111-136: no PNG, or the classifier is called and
\* returns no text or a text
WorkerProcess(outcome) ==
    /\ proc.worker = "process"
    /\ LET called == [proc EXCEPT !.log = Append(@, [ev |-> "classify", id |-> proc.frame.id])]
       IN  proc' =
             CASE outcome = "no_png" -> [proc EXCEPT !.worker = "test", !.frame = NoFrame]
               [] outcome = "no_result" -> [called EXCEPT !.worker = "test", !.frame = NoFrame]
               [] OTHER -> [called EXCEPT !.worker = "handle"]
    /\ UNCHANGED <<policy_vars, cap>>

\* _process_sample, lines 137-144, and _worker_loop, lines 106-109:
\* handle_frame_result returns, or raises and ends the thread
WorkerHandle(raises) ==
    /\ proc.worker = "handle"
    /\ proc' =
         IF raises
         THEN [proc EXCEPT !.worker = "dead", !.frame = NoFrame]
         ELSE [proc EXCEPT !.worker = "test", !.frame = NoFrame,
                           !.log = Append(@, [ev |-> "handled", id |-> proc.frame.id])]
    /\ UNCHANGED <<policy_vars, cap>>

\* shutdown, line 68: the stop event is set
ShutdownSet ==
    /\ proc.shutdown = "none"
    /\ proc' = [proc EXCEPT !.stop_event = TRUE,
                            !.at_stop = QueuedIds(proc.task_queue),
                            !.shutdown = "join"]
    /\ UNCHANGED <<policy_vars, cap>>

\* shutdown, line 69: join(timeout=5) returns when the thread has ended, or
\* at the timeout, which a worker waiting at most 0.5 s in get does not let
\* pass but one inside the classifier or the policy does
ShutdownJoin ==
    /\ proc.shutdown = "join"
    /\ proc.worker \in {"exited", "dead", "process", "handle"}
    /\ proc' = [proc EXCEPT !.shutdown = "drain"]
    /\ UNCHANGED <<policy_vars, cap>>

\* shutdown, lines 70-75: one turn of the loop that empties the queue
ShutdownDrain ==
    /\ proc.shutdown = "drain"
    /\ proc' =
         IF proc.task_queue = <<>>
         THEN [proc EXCEPT !.shutdown = "returned"]
         ELSE [proc EXCEPT !.task_queue = Take(proc.task_queue).rest]
    /\ UNCHANGED <<policy_vars, cap>>

----------------------------------------------------------------------------
(* ScreenshotCaptureManager: start and stop run in the main thread,         *)
(* _run_capture_loop in the capture thread, tighten_interval and            *)
(* restore_interval in whatever context calls the controller                *)

\* what the steps of the scheduler leave alone
sched_frame == <<clock, violations, last_label, interval_tightened, pc, loc, proc>>

\* a start that is not the source's: it goes on without displays
StartFails_Never(found) ==
    FALSE

\* start, line 45: the first refresh found no display
StartFails(found) ==
    found = {}

\* start(), and main() around it: the enumeration returns found
Start(found) ==
    /\ cap.started = "new"
    /\ LET r == Probed([cap EXCEPT !.stop_event = FALSE], found, "start", NoMessage)
       IN  cap' = IF StartFails(found)
                  THEN [r EXCEPT !.started = "failed", !.agent = "aborted"]
                  ELSE [r EXCEPT !.started = "running", !.agent = "running", !.loop = "test"]
    /\ display_intervals' = RefreshedIntervals(display_intervals, found)
    /\ UNCHANGED sched_frame

\* half a second passes
Elapse ==
    /\ cap.started = "running"
    /\ cap' = [cap EXCEPT !.age = Later(@, RefreshBackoff),
                          !.probe_age = Later(@, RefreshBackoff),
                          !.since = [d \in Displays |->
                                        IF d \in cap.last_capture
                                        THEN Later(@[d], MaxElapsed) ELSE 0],
                          !.done = [d \in Displays |->
                                       IF d \in cap.captured
                                       THEN Later(@[d], MaxElapsed) ELSE 0]]
    /\ UNCHANGED <<display_intervals, sched_frame>>

\* a test that is not the source's: a display is due only after its interval
IsDue_After(elapsed, interval) ==
    elapsed > interval

\* line 138
IsDue(elapsed, interval) ==
    elapsed >= interval

\* lines 130-143, due_displays: a display without an interval has the base
\* interval, one without a last capture the last capture 0.0, which the
\* monotonic clock has left behind by more than any interval
Due(c, intervals) ==
    {d \in c.display_ids :
        IsDue(IF d \in c.last_capture THEN c.since[d] ELSE MaxElapsed,
              IF d \in DOMAIN intervals THEN intervals[d] ELSE BaseInterval)}

\* a loop that is not the source's: without displays it never looks again
EmptyRefreshDue_Never(age) ==
    FALSE

\* line 125
EmptyRefreshDue(age) ==
    age >= RefreshBackoff

\* _run_capture_loop, lines 117-147: the test of the stop event, the refresh
\* when no display is known (the enumeration returns found), and the choice
\* of the displays that are due.  The waits of lines 127 and 146 end at any
\* time.
LoopTest(found) ==
    /\ cap.loop = "test"
    /\ IF cap.stop_event
       THEN /\ cap' = [cap EXCEPT !.loop = "exited"]
            /\ UNCHANGED display_intervals
       ELSE IF cap.display_ids = {}
       THEN IF EmptyRefreshDue(cap.age)
            THEN /\ cap' = Probed(cap, found, "empty", NoMessage)
                 /\ display_intervals' = RefreshedIntervals(display_intervals, found)
            ELSE UNCHANGED <<cap, display_intervals>>
       ELSE LET due == Due(cap, display_intervals)
            IN  /\ cap' = IF due = {} THEN [cap EXCEPT !.fresh = {}]
                          ELSE [cap EXCEPT !.loop = "due", !.pending = due,
                                           !.pass = [NoPass EXCEPT !.due = due],
                                           !.fresh = {}]
                /\ UNCHANGED display_intervals
    /\ UNCHANGED sched_frame

\* the first of the due displays
NextDue(pending) ==
    CHOOSE d \in pending : \A e \in pending : d <= e

\* lines 149-152 and _capture_png, lines 175-178: the loop ends, breaks on
\* the stop event, or starts the capture of the next due display
LoopNext ==
    /\ cap.loop = "due"
    /\ cap' = IF cap.pending = {} \/ cap.stop_event
              THEN [cap EXCEPT !.loop = "test", !.pending = {}]
              ELSE [cap EXCEPT !.loop = "capturing",
                               !.cur = NextDue(cap.pending),
                               !.has_index = NextDue(cap.pending) \in cap.display_indices,
                               !.attempts = Later(@, MaxCaptures),
                               !.pass.tried[NextDue(cap.pending)] = @ + 1]
    /\ UNCHANGED <<display_intervals, sched_frame>>

\* a loop that is not the source's: it ends after its first capture
Remaining_None(pending, d) ==
    {}

\* line 149, for display_id in due_displays: the displays still to come
Remaining(pending, d) ==
    pending \ {d}

\* a classification that is not the source's: every error is one of topology
ShouldRefresh_Any(text) ==
    TRUE

\* _handle_capture_error, lines 236-243
ShouldRefresh(text) ==
    \/ "invalid display" \in text
    \/ "only" \in text /\ "valid value" \in text
    \/ "missing display index" \in text
    \/ "no displays" \in text

\* a loop that is not the source's: it hands a frame over after every capture
Handed_Always(result) ==
    TRUE

\* lines 156-164: the frame handler is called with the PNG bytes, if any
Handed(result) ==
    result.png

\* line 245
ErrorRefreshDue(age) ==
    age >= RefreshThrottle

\* the capture ends with result, lines 153-172: a PNG is handed to the frame
\* handler, an error to _handle_capture_error, which may refresh the
\* displays (the enumeration returns found); then the end of the capture is
\* written to _last_capture if the display still has a key there
CaptureDone(result, found) ==
    /\ cap.loop = "capturing"
    /\ ~cap.has_index => result = MissingIndex
    /\ LET refreshes == /\ ~result.png
                        /\ ShouldRefresh(result.error)
                        /\ ErrorRefreshDue(cap.age)
           handled == IF refreshes
                      THEN Probed(cap, found, "error", result.error)
                      ELSE cap
       IN  /\ cap' = [handled EXCEPT
                         !.loop = "due", !.pending = Remaining(@, cap.cur),
                         !.cur = 0, !.has_index = FALSE,
                         !.since[cap.cur] = IF cap.cur \in handled.last_capture THEN 0 ELSE @,
                         !.captured = @ \cup {cap.cur},
                         !.pass.failed = IF result.png THEN @ ELSE @ \cup {cap.cur},
                         !.pass.handed = IF Handed(result) THEN @ \cup {cap.cur} ELSE @,
                         !.done[cap.cur] = 0,
                         !.late = @ \/ (Handed(result) /\ cap.stop = "returned")]
           /\ display_intervals' = IF refreshes
                                   THEN RefreshedIntervals(display_intervals, found)
                                   ELSE display_intervals
    /\ UNCHANGED sched_frame

\* stop, line 56: the stop event is set
StopSet ==
    /\ cap.started = "running"
    /\ cap.stop = "none"
    /\ cap' = [cap EXCEPT !.stop_event = TRUE, !.stop = "join"]
    /\ UNCHANGED <<display_intervals, sched_frame>>

\* stop, lines 57-59: join(timeout=base_interval + 1) returns when the
\* thread has ended, or at the timeout, which only a capture in progress
\* lets pass
StopJoin ==
    /\ cap.stop = "join"
    /\ cap.loop \in {"exited", "capturing"}
    /\ cap' = [cap EXCEPT !.stop = "clear"]
    /\ UNCHANGED <<display_intervals, sched_frame>>

\* stop, lines 60-66: the maps are cleared, _last_refresh is now, and stop
\* returns
StopClear ==
    /\ cap.stop = "clear"
    /\ cap' = [cap EXCEPT !.display_ids = {}, !.display_indices = {},
                          !.last_capture = {}, !.since = [d \in Displays |-> 0],
                          !.age = 0, !.stop = "returned", !.fresh = {}]
    /\ display_intervals' = RefreshedIntervals(display_intervals, {})
    /\ UNCHANGED sched_frame

\* tighten_interval(d, interval) called on the controller
CallTighten(d, interval) ==
    /\ display_intervals' = TightenInterval(display_intervals, d, interval)
    /\ cap' = [cap EXCEPT !.requested[d] = IF interval > 0 THEN interval ELSE @]
    /\ UNCHANGED sched_frame

\* restore_interval(d) called on the controller
CallRestore(d) ==
    /\ display_intervals' = RestoreInterval(display_intervals, d)
    /\ cap' = [cap EXCEPT !.requested[d] = 0]
    /\ UNCHANGED sched_frame

----------------------------------------------------------------------------
(* ScreenCaptureManager, the capture manager of the streaming variant: the  *)
(* stream delegates call handle_sample_buffer and handle_stream_stop, and   *)
(* _watchdog_loop runs in the watchdog thread.  Under WatchSpec the         *)
(* variable cap holds this manager.                                         *)

\* the last step was no visit of the watchdog.  In a visit of display d,
\* idle is the idle duration the watchdog computed, silence and attempt_age
\* are the display's before the visit, called tells whether the idle
\* callback was invoked and restarted whether a restart was attempted.
NoVisit ==
    [d |-> 0, idle |-> 0, silence |-> 0, attempt_age |-> 0,
     called |-> FALSE, restarted |-> FALSE]

\* ScreenCaptureManager after start() has opened a stream for every display
\* of ids.  displays is the key set of _displays, _last_frame and
\* _last_restart, streams that of _streams; frame_age and restart_age are
\* the times elapsed from _last_frame and _last_restart; pending and idle
\* are the items the running cycle of the watchdog still has to visit and
\* their idle durations.  The other fields are not fields of the source:
\* silence is the time elapsed from the last frame of the display or the
\* opening of its first stream, warnings the idle warnings logged since then
\* with the display silent for more than the window (counted up to 2),
\* attempt_age the time elapsed from the last restart
\* attempt or the opening of the first stream, and visit what the last step
\* did if it was a visit of the watchdog.
RunningStreams(ids) ==
    [displays |-> ids,
     streams |-> ids,
     frame_age |-> [d \in Displays |-> 0],
     restart_age |-> [d \in Displays |-> 0],
     idle_notified |-> [d \in Displays |-> FALSE],
     pending |-> {},
     idle |-> [d \in Displays |-> 0],
     silence |-> [d \in Displays |-> 0],
     warnings |-> [d \in Displays |-> 0],
     attempt_age |-> [d \in Displays |-> 0],
     visit |-> NoVisit]

\* handle_sample_buffer for a valid screen sample of display d
HandleSampleBuffer(d) ==
    /\ d \in cap.streams
    /\ cap' = [cap EXCEPT !.frame_age[d] = 0,
                          !.idle_notified[d] = FALSE,
                          !.silence[d] = 0,
                          !.warnings[d] = 0,
                          !.visit = NoVisit]
    /\ UNCHANGED <<display_intervals, sched_frame>>

\* handle_stream_stop for display d: every map loses the display
HandleStreamStop(d) ==
    /\ d \in cap.streams
    /\ cap' = [cap EXCEPT !.displays = @ \ {d},
                          !.streams = @ \ {d},
                          !.frame_age[d] = 0,
                          !.restart_age[d] = 0,
                          !.idle_notified[d] = FALSE,
                          !.silence[d] = 0,
                          !.warnings[d] = 0,
                          !.attempt_age[d] = 0,
                          !.visit = NoVisit]
    /\ UNCHANGED <<display_intervals, sched_frame>>

\* _watchdog_loop, lines 393-395: the wait of one check interval ends, and
\* the cycle takes now and the items of _last_frame
WatchdogWait ==
    /\ cap.pending = {}
    /\ LET aged(f, max) == [d \in Displays |->
                               IF d \in cap.displays
                               THEN IF f[d] + WatchdogCheckInterval < max
                                    THEN f[d] + WatchdogCheckInterval ELSE max
                               ELSE 0]
           frame_age == aged(cap.frame_age, WatchdogWindow + 1)
       IN  cap' = [cap EXCEPT !.frame_age = frame_age,
                              !.restart_age = aged(@, RestartBackoff),
                              !.silence = aged(@, WatchdogWindow + 1),
                              !.attempt_age = aged(@, RestartBackoff),
                              !.pending = cap.displays,
                              !.idle = frame_age,
                              !.visit = NoVisit]
    /\ UNCHANGED <<display_intervals, sched_frame>>

\* a watchdog that is not the source's: a restart is never suppressed
RestartSuppressed_Never(c, d) ==
    FALSE

\* _maybe_restart_stream, lines 275-278: a display without a last restart
\* has the last restart 0.0, which lies back more than the backoff
RestartSuppressed(c, d) ==
    d \in c.displays /\ c.restart_age[d] < RestartBackoff

\* _maybe_restart_stream(d, idle_duration): the restart is suppressed, or
\* impossible for want of a display object, or the idle tracking is reset and
\* the stream is stopped and opened again, which succeeds or not (ok)
MaybeRestartStream(c, d, ok) ==
    IF RestartSuppressed(c, d) THEN c
    ELSE IF d \notin c.displays THEN c
    ELSE [c EXCEPT !.restart_age[d] = 0,
                   !.frame_age[d] = 0,
                   !.idle_notified[d] = FALSE,
                   !.streams = IF ok THEN @ \cup {d} ELSE @ \ {d},
                   !.attempt_age[d] = 0,
                   !.visit.restarted = TRUE]

\* _watchdog_loop, lines 396-414, for the next item of the cycle
WatchdogCheck(ok) ==
    /\ cap.pending # {}
    /\ LET d == NextDue(cap.pending)
           visited == [cap EXCEPT !.pending = @ \ {d},
                                  !.visit = [NoVisit EXCEPT
                                                !.d = d,
                                                !.idle = cap.idle[d],
                                                !.silence = cap.silence[d],
                                                !.attempt_age = cap.attempt_age[d]]]
           warned == IF visited.idle_notified[d] THEN visited
                     ELSE [visited EXCEPT !.idle_notified[d] = TRUE,
                                          !.warnings[d] =
                                             IF cap.silence[d] > WatchdogWindow
                                             THEN Later(@, 2) ELSE @]
       IN  cap' = IF cap.idle[d] > WatchdogWindow
                  THEN [MaybeRestartStream(warned, d, ok) EXCEPT !.visit.called = TRUE]
                  ELSE [visited EXCEPT !.idle_notified[d] = FALSE]
    /\ UNCHANGED <<display_intervals, sched_frame>>

----------------------------------------------------------------------------
(* Specifications *)

\* the steps inside the handlers
HandlerStep ==
    \/ FrameWarn
    \/ FrameCreate
    \/ TightenCheck
    \/ TightenCtl
    \/ TightenFlag
    \/ FrameDecide
    \/ FrameLock
    \/ FramePop
    \/ FrameLabelPop
    \/ FrameRemind
    \/ FrameSetNotified
    \/ IdleDecide
    \/ IdleLock
    \/ IdlePop
    \/ IdleRemind
    \/ IdleSetNotified
    \/ \E t \in Threads : RestoreFlag(t)
    \/ \E t \in Threads : RestoreCtl(t)
    \/ \E t \in Threads : Return(t)

\* the texts and the displays of the calls under RaceSpec: a result that
\* counts as entertainment, one that does not, one that does not parse, one
\* that makes the handler raise, and no result
RaceTexts ==
    {[form |-> "bare", json |-> [type |-> "object", label |-> Str("entertainment"), confidence |-> Num(60)]],
     [form |-> "bare", json |-> [type |-> "object", label |-> Str("work"), confidence |-> Num(60)]],
     [form |-> "bare", json |-> JsonArray],
     Garbage,
     NoText}

RaceDisplays == {1}

\* Under Spec an operation starts only when no other is in progress
SerialWorkerStart ==
    /\ Quiet
    /\ \E d \in Displays, text \in ResultTexts \cup {NoText} : WorkerStart(d, text)

SerialIdleStart ==
    /\ Quiet
    /\ \E d \in Displays : IdleStart(d)

SerialTick ==
    /\ Quiet
    /\ Tick(MaxClock)

SerialRefresh ==
    /\ Quiet
    /\ \E new_ids \in SUBSET Displays : RefreshDisplays(new_ids)

Next ==
    \/ SerialWorkerStart
    \/ SerialIdleStart
    \/ SerialTick
    \/ SerialRefresh
    \/ HandlerStep

Spec == Init /\ [][Next]_vars

\* Under RaceSpec an operation starts whatever the other contexts are doing
RaceWorkerStart ==
    \E d \in RaceDisplays, text \in RaceTexts : WorkerStart(d, text)

RaceIdleStart ==
    \E d \in RaceDisplays : IdleStart(d)

RaceTick == Tick(RaceMaxClock)

RaceNext ==
    \/ RaceWorkerStart
    \/ RaceIdleStart
    \/ RaceTick
    \/ HandlerStep

RaceSpec == Init /\ [][RaceNext]_vars


\* FrameProcessor alone: frames of any display and timestamp arrive in any
\* order while the worker and shutdown run; SCREEN_TIMER_QUEUE_SIZE is any
\* integer from 0 to MaxQueueSize
ProcInit ==
    /\ \E size \in 0..MaxQueueSize : proc = NewProcessor(size)
    /\ cap = RunningScheduler(Displays)
    /\ clock = 0
    /\ violations = [d \in Displays |-> NoViolation]
    /\ last_label = [d \in Displays |-> NoLabel]
    /\ interval_tightened = {}
    /\ display_intervals = RefreshedIntervals(<<>>, Displays)
    /\ pc = [t \in Threads |-> "idle"]
    /\ loc = [t \in Threads |-> InitLoc]

ProcHandleFrame ==
    \E d \in Displays, ts \in 0..MaxTimestamp : HandleFrame(d, ts)

ProcWorkerProcess ==
    \E outcome \in {"no_png", "no_result", "result"} : WorkerProcess(outcome)

ProcWorkerHandle ==
    \E raises \in BOOLEAN : WorkerHandle(raises)

ProcNext ==
    \/ ProcHandleFrame
    \/ WorkerTest
    \/ WorkerGet
    \/ ProcWorkerProcess
    \/ ProcWorkerHandle
    \/ ShutdownSet
    \/ ShutdownJoin
    \/ ShutdownDrain

ProcSpec == ProcInit /\ [][ProcNext]_vars

\* FrameProcessor with frames that arrive one sample interval apart and a
\* worker thread that keeps running: the test of the stop event is made, the
\* timed get returns or times out, and the classifier and the policy return
\* or raise
ProcLiveFrame ==
    /\ proc.next_id <= MaxLiveFrames
    /\ \E d \in Displays : HandleFrame(d, proc.next_id * SampleInterval)

ProcLiveNext ==
    \/ ProcLiveFrame
    \/ WorkerTest
    \/ WorkerGet
    \/ ProcWorkerProcess
    \/ ProcWorkerHandle
    \/ ShutdownSet
    \/ ShutdownJoin
    \/ ShutdownDrain

ProcLiveSpec ==
    /\ ProcInit
    /\ [][ProcLiveNext]_vars
    /\ WF_vars(WorkerTest)
    /\ WF_vars(WorkerGet)
    /\ WF_vars(ProcWorkerProcess)
    /\ WF_vars(ProcWorkerHandle)

\* ScreenshotCaptureManager alone, from its construction: start, the
\* capture loop and stop
CapInit ==
    /\ cap = NewScheduler
    /\ proc = NewProcessor(1)
    /\ clock = 0
    /\ violations = [d \in Displays |-> NoViolation]
    /\ last_label = [d \in Displays |-> NoLabel]
    /\ interval_tightened = {}
    /\ display_intervals = RefreshedIntervals(<<>>, {})
    /\ pc = [t \in Threads |-> "idle"]
    /\ loc = [t \in Threads |-> InitLoc]

CapStart ==
    \E found \in SUBSET Displays : Start(found)

CapLoopTest ==
    \E found \in SUBSET Displays : LoopTest(found)

CapCaptureDone ==
    \E result \in CaptureResults, found \in SUBSET Displays :
        CaptureDone(result, found)

\* PolicyEngine._tighten_interval calls tighten_interval for a display
CapTighten ==
    /\ \E d \in Displays :
          display_intervals' = TightenInterval(display_intervals, d, ViolationCaptureInterval)
    /\ UNCHANGED <<cap, sched_frame>>

\* PolicyEngine._restore_interval calls restore_interval for a display
CapRestore ==
    /\ \E d \in Displays : display_intervals' = RestoreInterval(display_intervals, d)
    /\ UNCHANGED <<cap, sched_frame>>

CapNext ==
    \/ CapStart
    \/ Elapse
    \/ CapLoopTest
    \/ LoopNext
    \/ CapCaptureDone
    \/ StopSet
    \/ StopJoin
    \/ StopClear
    \/ CapTighten
    \/ CapRestore

CapSpec == CapInit /\ [][CapNext]_vars

\* ScreenshotCaptureManager at the base interval, with a capture thread that
\* keeps running and a clock that keeps going: every step of the loop that
\* can be taken is taken in the end (a capture ends, a wait times out), and
\* time passes
LiveNext ==
    \/ CapStart
    \/ Elapse
    \/ CapLoopTest
    \/ LoopNext
    \/ CapCaptureDone
    \/ StopSet
    \/ StopJoin
    \/ StopClear

LiveSpec ==
    /\ CapInit
    /\ [][LiveNext]_vars
    /\ WF_vars(Elapse)
    /\ WF_vars(CapLoopTest)
    /\ WF_vars(LoopNext)
    /\ WF_vars(CapCaptureDone)

\* the scheduler and the processor of a running agent: the capture loop
\* hands frames of the displays it knows to FrameProcessor.handle_frame, and
\* it enumerates the displays again
TopoFrame ==
    \E d \in cap.display_ids, ts \in 1..MaxTimestamp : HandleFrame(d, ts)

TopoRefresh ==
    \E new_ids \in SUBSET Displays : RefreshDisplays(new_ids)

TopoNext ==
    \/ TopoFrame
    \/ TopoRefresh

TopoSpec == Init /\ [][TopoNext]_vars

\* ScreenCaptureManager with a stream for every display, no frame yet, and
\* an idle callback
WatchInit ==
    /\ cap = RunningStreams(Displays)
    /\ proc = NewProcessor(1)
    /\ clock = 0
    /\ violations = [d \in Displays |-> NoViolation]
    /\ last_label = [d \in Displays |-> NoLabel]
    /\ interval_tightened = {}
    /\ display_intervals = RefreshedIntervals(<<>>, {})
    /\ pc = [t \in Threads |-> "idle"]
    /\ loc = [t \in Threads |-> InitLoc]

WatchFrame ==
    \E d \in Displays : HandleSampleBuffer(d)

WatchStreamStop ==
    \E d \in Displays : HandleStreamStop(d)

WatchCheck ==
    \E ok \in BOOLEAN : WatchdogCheck(ok)

WatchNext ==
    \/ WatchFrame
    \/ WatchStreamStop
    \/ WatchdogWait
    \/ WatchCheck

WatchSpec == WatchInit /\ [][WatchNext]_vars

\* the controller alone: any sequence of tighten_interval and
\* restore_interval calls on a scheduler that knows any set of displays
CtlInit ==
    /\ \E ids \in SUBSET Displays :
          /\ cap = RunningScheduler(ids)
          /\ display_intervals = RefreshedIntervals(<<>>, ids)
    /\ proc = NewProcessor(1)
    /\ clock = 0
    /\ violations = [d \in Displays |-> NoViolation]
    /\ last_label = [d \in Displays |-> NoLabel]
    /\ interval_tightened = {}
    /\ pc = [t \in Threads |-> "idle"]
    /\ loc = [t \in Threads |-> InitLoc]

CtlTighten ==
    \E d \in Displays, interval \in (-1)..MaxInterval : CallTighten(d, interval)

CtlRestore ==
    \E d \in Displays : CallRestore(d)

CtlNext ==
    \/ CtlTighten
    \/ CtlRestore

CtlSpec == CtlInit /\ [][CtlNext]_vars

----------------------------------------------------------------------------
(* Terms of the properties.  They are stated from the call's inputs and     *)
(* outputs, not from the branch the model took.                             *)

\* the number of times thread t's call issued the event
Issued(t, event) ==
    Cardinality({i \in 1..Len(loc[t].out) : loc[t].out[i] = event})

\* the call issued no notification and no lock
Silent(t) ==
    /\ Issued(t, "warning") = 0
    /\ Issued(t, "reminder") = 0
    /\ Issued(t, "lock") = 0

\* thread t's handler has returned and its call is still on record
Returned(t) == pc[t] = "ret"

\* the worker's call was given a result with label "entertainment", in any
\* case, and confidence >= 0.6
EntertainmentResult ==
    /\ loc["worker"].call = "handled"
    /\ loc["worker"].label \in {"entertainment", "Entertainment"}
    /\ loc["worker"].confidence >= 60

\* the worker's call was given a result that parsed and is not entertainment
BenignResult ==
    /\ loc["worker"].call = "handled"
    /\ \/ loc["worker"].label \notin {"entertainment", "Entertainment"}
       \/ loc["worker"].confidence < 60

\* the time is in the window in which the policy suppresses enforcement: from
\* off_hours_start to off_hours_start + off_hours_grace, both ends included
InGraceWindow(now) ==
    /\ OffHoursStart <= now
    /\ now <= OffHoursStart + OffHoursGrace

\* thread t's call is one the policy decides on: a qualifying entertainment
\* result for the worker, an idle signal for the watchdog
PolicyCall(t) ==
    IF t = "worker" THEN EntertainmentResult ELSE loc[t].call = "idle"

\* the display has an entry in the scheduler's interval map
Known(d) == d \in DOMAIN display_intervals

----------------------------------------------------------------------------
(* C1 *)

\* C1: executions of handle_frame_result (worker) and handle_stream_idle
\* (watchdog) are serialized: in no reachable state are both mid-execution.
C1_HandlersSerialized ==
    ~(MidCall("worker") /\ MidCall("watchdog"))

----------------------------------------------------------------------------
(* C2 *)

\* C2: between the creation of a violation and its clearing the lock action
\* is executed at most once, under every interleaving of classification
\* results and idle signals: no violation object, in the map or still held
\* by a handler, has had the lock command run for it twice.
C2_LockAtMostOncePerViolation ==
    /\ \A d \in Displays : violations[d].locks <= 1
    /\ \A t \in Threads : loc[t].state.obj.locks <= 1

----------------------------------------------------------------------------
(* C3 *)

\* C3: with an active violation and outside the window of suppression, a
\* qualifying entertainment result or an idle signal runs the lock action if
\* and only if now - first_detected >= violation_grace; below the grace it
\* runs no lock.
C3_LockIffGraceElapsed ==
    \A t \in Threads :
        (/\ Returned(t)
         /\ PolicyCall(t)
         /\ loc[t].seen # NoViolation
         /\ ~InGraceWindow(loc[t].now))
        => /\ Issued(t, "lock") =
                 (IF loc[t].now - loc[t].seen.first_detected >= ViolationGrace THEN 1 ELSE 0)
           /\ Issued(t, "lock") = 1 => Issued(t, "reminder") = 0

\* a call locked at elapsed = violation_grace exactly
C3_Witness ==
    \E t \in Threads :
        /\ Returned(t)
        /\ PolicyCall(t)
        /\ loc[t].seen # NoViolation
        /\ ~InGraceWindow(loc[t].now)
        /\ loc[t].now - loc[t].seen.first_detected = ViolationGrace
        /\ Issued(t, "lock") = 1

----------------------------------------------------------------------------
(* C4 *)

\* C4: a result with label "entertainment" and confidence >= 0.6 that arrives
\* outside the window of suppression for a target without a violation creates
\* a violation with first_detected = last_notified = now, sends exactly one
\* warning, runs no lock, and makes the target's capture interval (when the
\* scheduler holds one for the target) the tightened interval.
C4_FirstDetection ==
    (/\ Returned("worker")
     /\ EntertainmentResult
     /\ loc["worker"].seen = NoViolation
     /\ ~InGraceWindow(loc["worker"].now))
    => LET d == loc["worker"].d
           v == violations[d]
       IN  /\ v # NoViolation
           /\ v.first_detected = loc["worker"].now
           /\ v.last_notified = loc["worker"].now
           /\ Issued("worker", "warning") = 1
           /\ Issued("worker", "reminder") = 0
           /\ Issued("worker", "lock") = 0
           /\ Issued("worker", "tighten") = 1
           /\ Known(d) => display_intervals[d] = ViolationCaptureInterval

\* the first detection of a target the scheduler knows, at a time after
\* midnight and with confidence exactly 0.6
C4_Witness ==
    /\ Returned("worker")
    /\ EntertainmentResult
    /\ loc["worker"].confidence = 60
    /\ loc["worker"].seen = NoViolation
    /\ ~InGraceWindow(loc["worker"].now)
    /\ loc["worker"].now > 0
    /\ Known(loc["worker"].d)
    /\ display_intervals[loc["worker"].d] = ViolationCaptureInterval
    /\ violations[loc["worker"].d].first_detected = loc["worker"].now

----------------------------------------------------------------------------
(* C5 *)

\* C5: after a parsed classification whose label is not "entertainment"
\* (case-insensitively) or whose confidence is below 0.6, the target has no
\* violation, its capture interval (when the scheduler holds one) is the base
\* interval, and the result issued no notification and no lock.
C5_BenignClears ==
    (Returned("worker") /\ BenignResult)
    => LET d == loc["worker"].d
       IN  /\ violations[d] = NoViolation
           /\ Known(d) => display_intervals[d] = BaseInterval
           /\ Silent("worker")

\* an "Entertainment" result of confidence 0.59 cleared an active violation
\* and restored the tightened interval
C5_Witness ==
    /\ Returned("worker")
    /\ BenignResult
    /\ loc["worker"].label = "Entertainment"
    /\ loc["worker"].confidence = 59
    /\ loc["worker"].seen # NoViolation
    /\ Issued("worker", "restore") = 1
    /\ Known(loc["worker"].d)

----------------------------------------------------------------------------
(* C6 *)

\* C6: a classification result or an idle signal handled at a time inside
\* the window of suppression issues no lock and no notification, and after
\* it the target has no violation.
C6_SuppressedInWindow ==
    \A t \in Threads :
        (/\ Returned(t)
         /\ loc[t].call \in {"handled", "idle"}
         /\ InGraceWindow(loc[t].now))
        => /\ Silent(t)
           /\ violations[loc[t].d] = NoViolation

\* a violation past its grace was cleared without a lock at off_hours_start
C6_Witness ==
    \E t \in Threads :
        /\ Returned(t)
        /\ PolicyCall(t)
        /\ loc[t].now = OffHoursStart
        /\ loc[t].seen # NoViolation
        /\ loc[t].now - loc[t].seen.first_detected >= ViolationGrace
        /\ violations[loc[t].d] = NoViolation
        /\ Silent(t)

----------------------------------------------------------------------------
(* C7 *)

\* the worker's call was suppressed: no notification, no lock, and no
\* violation for the display after it
Suppressed ==
    /\ Silent("worker")
    /\ violations[loc["worker"].d] = NoViolation

\* C7, as the specification states it: the window is half-open, a qualifying
\* entertainment result is suppressed exactly when
\* off_hours_start <= now < off_hours_start + off_hours_grace.
C7_HalfOpenWindow ==
    (Returned("worker") /\ EntertainmentResult)
    => (Suppressed <=>
          /\ OffHoursStart <= loc["worker"].now
          /\ loc["worker"].now < OffHoursStart + OffHoursGrace)

\* C7: the window of suppression is closed: a qualifying entertainment result
\* is suppressed exactly when
\* off_hours_start <= now <= off_hours_start + off_hours_grace, so a result
\* handled at now = off_hours_start + off_hours_grace is suppressed and one
\* handled later is enforced.
C7_ClosedWindow ==
    (Returned("worker") /\ EntertainmentResult)
    => (Suppressed <=>
          /\ OffHoursStart <= loc["worker"].now
          /\ loc["worker"].now <= OffHoursStart + OffHoursGrace)

\* a qualifying result handled at off_hours_start + off_hours_grace, for a
\* display with a violation past its grace, was suppressed
C7_Witness ==
    /\ Returned("worker")
    /\ EntertainmentResult
    /\ loc["worker"].now = OffHoursStart + OffHoursGrace
    /\ loc["worker"].seen # NoViolation
    /\ loc["worker"].now - loc["worker"].seen.first_detected >= ViolationGrace
    /\ Suppressed

----------------------------------------------------------------------------
(* C8 *)

\* the text has no JSON value _parse_result can return
Unparseable(l) ==
    \/ l.form \in {"garbage", "brace_garbage"}
    \/ l.form \in {"bare", "fenced", "reason"} /\ l.json_type = "null"
    \/ l.form = "prose" /\ l.json_type # "object"

\* C8: handling a result text that cannot be parsed is one step that leaves
\* the violation map, the last labels, the tightened flags and the capture
\* intervals unchanged and issues no notification, lock, tighten or restore.
C8_UnparseableIgnored ==
    [][(/\ pc["worker"] = "idle"
        /\ pc'["worker"] # "idle"
        /\ Unparseable(loc'["worker"]))
       => /\ pc'["worker"] = "ret"
          /\ loc'["worker"].out = <<>>
          /\ UNCHANGED <<violations, last_label, interval_tightened, display_intervals>>]_vars

\* a text that cannot be parsed was handled for a display with an active
\* violation and a tightened interval, which are both still there
C8_Witness ==
    /\ Returned("worker")
    /\ Unparseable(loc["worker"])
    /\ loc["worker"].call = "unparsed"
    /\ violations[loc["worker"].d] # NoViolation
    /\ loc["worker"].d \in interval_tightened
    /\ loc["worker"].out = <<>>

----------------------------------------------------------------------------
(* C9 *)

\* C9: no result text raises into the processor worker: the worker thread
\* never ends on an exception of handle_frame_result.
C9_WorkerStaysAlive ==
    pc["worker"] # "dead"

----------------------------------------------------------------------------
(* C10 *)

\* C10: handle_stream_idle called for a display without a violation is one
\* step that leaves the violation map, the capture intervals and the
\* tightened flags unchanged and issues no notification and no lock.
C10_IdleCreatesNothing ==
    [][(/\ pc["watchdog"] = "idle"
        /\ pc'["watchdog"] # "idle"
        /\ violations[loc'["watchdog"].d] = NoViolation)
       => /\ pc'["watchdog"] = "ret"
          /\ loc'["watchdog"].out = <<>>
          /\ UNCHANGED <<violations, last_label, interval_tightened, display_intervals>>]_vars

\* an idle signal was handled for a display without a violation while the
\* other display has one
C10_Witness ==
    /\ Returned("watchdog")
    /\ loc["watchdog"].call = "idle"
    /\ loc["watchdog"].seen = NoViolation
    /\ violations[loc["watchdog"].d] = NoViolation
    /\ \E e \in Displays : violations[e] # NoViolation

----------------------------------------------------------------------------
(* C11 *)

\* the capture interval of display d changes in this step
IntervalChanges(d) ==
    /\ d \in DOMAIN display_intervals
    /\ d \in DOMAIN display_intervals'
    /\ display_intervals'[d] # display_intervals[d]

\* C11: PolicyManager's tighten changes a display's interval only in the
\* call that created the display's violation, and only once in that call, so
\* at most once between the creation of a violation and its clearing; its
\* restore changes the interval only when a tighten was applied and is not
\* yet restored, that is when the interval is the tightened one.
C11_TightenOncePerViolation ==
    [][\A d \in Displays :
          IntervalChanges(d)
          => \/ /\ pc["worker"] = "tighten_ctl"
                /\ pc'["worker"] = "tighten_flag"
                /\ loc["worker"].d = d
                /\ loc["worker"].seen = NoViolation
                /\ Issued("worker", "tighten") = 0
                /\ display_intervals[d] = BaseInterval
                /\ display_intervals'[d] = ViolationCaptureInterval
             \/ /\ \E t \in Threads :
                      /\ pc[t] = "restore_ctl"
                      /\ pc'[t] # "restore_ctl"
                      /\ loc[t].d = d
                      /\ Issued(t, "restore") = 0
                /\ display_intervals[d] = ViolationCaptureInterval
                /\ display_intervals'[d] = BaseInterval]_vars

\* a call tightened the display of the violation it created, and a later
\* call for a display whose restore was requested at the base interval
\* returned with nothing changed
C11_Witness ==
    /\ Returned("worker")
    /\ Issued("worker", "restore") = 1
    /\ Known(loc["worker"].d)
    /\ loc["worker"].seen # NoViolation
    /\ \E e \in Displays :
          /\ e # loc["worker"].d
          /\ Known(e)
          /\ display_intervals[e] = ViolationCaptureInterval

----------------------------------------------------------------------------
(* C12 *)

\* C12: in every reachable state every display the scheduler knows is at the
\* base interval unless it is at the tightened interval for a violation that
\* is active or is being cleared by a handler that has yet to restore; a
\* display without a violation is never left at a tightened interval.
C12_BaseUnlessTightened ==
    \A d \in DOMAIN display_intervals :
        \/ display_intervals[d] = BaseInterval
        \/ /\ display_intervals[d] = ViolationCaptureInterval
           /\ \/ violations[d] # NoViolation
              \/ \E t \in Threads : MidCall(t) /\ loc[t].d = d

----------------------------------------------------------------------------
(* C13 *)

\* C13: for every configured queue_size, in every reachable state the queue
\* of the processor holds at most queue_size frames.
C13_QueueBounded ==
    Len(proc.task_queue) <= proc.queue_size

----------------------------------------------------------------------------
(* C14 *)

\* the frame with this id is on the queue, in the worker's hands or in the
\* record of the worker's calls
Processed(id) ==
    \/ id \in QueuedIds(proc.task_queue)
    \/ proc.frame.id = id
    \/ \E i \in 1..Len(proc.log) : proc.log[i].id = id

\* C14: a frame that passes the sampling gate while the queue holds
\* queue_size frames is dropped in the same call: the queue is as it was, one
\* more drop is on record, the worker is not touched, and a dropped frame is
\* never on the queue, in the worker's hands or processed.
C14_DropWhenFull ==
    [][/\ (/\ proc'.next_id = proc.next_id + 1
           /\ proc'.last_sample # proc.last_sample
           /\ proc.queue_size > 0
           /\ Len(proc.task_queue) = proc.queue_size)
          => /\ proc'.task_queue = proc.task_queue
             /\ proc'.drop_warnings = proc.drop_warnings + 1
             /\ proc'.dropped = proc.dropped \cup {proc.next_id}
             /\ proc'.worker = proc.worker
             /\ proc'.frame = proc.frame
             /\ proc'.forwarded = proc.forwarded
       /\ \A id \in proc'.dropped : ~Processed(id)'
       /\ proc'.drop_warnings = Cardinality(proc'.dropped)]_vars

\* two frames were dropped on a full queue and a frame that arrived after
\* the first drop was processed
C14_Witness ==
    /\ proc.drop_warnings = 2
    /\ \E id \in proc.dropped :
          \E i \in 1..Len(proc.log) :
             proc.log[i].id > id /\ proc.log[i].ev = "handled"

----------------------------------------------------------------------------
(* C15 *)

\* C15: for every display, two frames put on the queue one after the other
\* have timestamps that differ by at least sample_interval.
C15_SamplingGate ==
    \A d \in Displays :
        \A i \in 1..(Len(proc.forwarded[d]) - 1) :
            proc.forwarded[d][i + 1] - proc.forwarded[d][i] >= SampleInterval

\* two frames of a display were forwarded exactly sample_interval apart,
\* and a frame was gated out
C15_Witness ==
    \E d \in Displays :
        /\ Len(proc.forwarded[d]) = 2
        /\ proc.forwarded[d][2] - proc.forwarded[d][1] = SampleInterval
        /\ proc.next_id > 3
        /\ proc.forwarded = [e \in Displays |-> IF e = d THEN proc.forwarded[d] ELSE <<>>]
        /\ proc.dropped = {}

----------------------------------------------------------------------------
(* C16 *)

\* C16: the worker's calls follow the order in which the frames were put on
\* the queue (the order of their ids): every call for an earlier frame,
\* handle_frame_result included, comes before the classifier is called for a
\* later one, and no frame is classified or handled twice.
C16_ResultsInQueueOrder ==
    \A i, j \in 1..Len(proc.log) :
        i < j =>
          \/ proc.log[i].id < proc.log[j].id
          \/ /\ proc.log[i].id = proc.log[j].id
             /\ proc.log[i].ev = "classify"
             /\ proc.log[j].ev = "handled"

\* two frames that were on the queue together were both classified and
\* handled
C16_Witness ==
    /\ Len(proc.log) = 4
    /\ proc.log[2].ev = "handled"
    /\ proc.log[4].ev = "handled"
    /\ proc.queue_size = 2
    /\ proc.drop_warnings = 1

----------------------------------------------------------------------------
(* C17 *)

\* C17: the frames on the queue when shutdown sets the stop event are
\* discarded without processing: none of them comes into the worker's hands
\* or is classified, and when shutdown has returned the queue is empty.
C17_QueuedAtStopDiscarded ==
    /\ proc.frame.id \notin proc.at_stop
    /\ \A i \in 1..Len(proc.log) : proc.log[i].id \notin proc.at_stop
    /\ proc.shutdown = "returned" => proc.task_queue = <<>>

----------------------------------------------------------------------------
(* C18 *)

\* C18: start() fails exactly when the enumeration it makes returns no
\* display; after a failed start the capture thread does not exist, no
\* capture was or is ever attempted and main() has aborted the startup; once
\* start() has succeeded, a later enumeration without displays fails
\* nothing: the scheduler stays running and the loop alive.
C18_NoTargetsFatalAtStart ==
    [][/\ (cap.started = "new" /\ cap'.started # "new")
          => (cap'.started = "failed" <=> cap'.display_ids = {})
       /\ cap'.started = "failed"
          => /\ cap'.loop = "none"
             /\ cap'.attempts = 0
             /\ cap'.agent = "aborted"
             /\ DOMAIN display_intervals' = {}
       /\ cap.started = "running"
          => /\ cap'.started = "running"
             /\ cap'.agent = "running"
             /\ cap'.loop # "none"]_vars

\* start() failed for want of displays
C18_Witness ==
    /\ cap.started = "failed"
    /\ cap.agent = "aborted"
    /\ cap.display_ids = {}

----------------------------------------------------------------------------
(* C19 *)

\* C19: once stop() has returned, the display ids, the index map, the
\* interval map and the last-capture map are empty and stay empty, and the
\* capture loop hands no frame to the frame handler.
C19_StoppedStaysEmpty ==
    cap.stop = "returned"
    => /\ cap.display_ids = {}
       /\ cap.display_indices = {}
       /\ cap.last_capture = {}
       /\ DOMAIN display_intervals = {}
       /\ ~cap.late

----------------------------------------------------------------------------
(* C20 *)

\* C20: after any sequence of tighten_interval and restore_interval calls,
\* the interval of every display the scheduler knows is the interval of the
\* last tighten with a positive interval since the last restore, or the base
\* interval if there is none, and the calls add no display to the map.
C20_LastTightenOrBase ==
    /\ DOMAIN display_intervals = cap.display_ids
    /\ \A d \in DOMAIN display_intervals :
          display_intervals[d] =
             IF cap.requested[d] > 0 THEN cap.requested[d] ELSE BaseInterval

\* one display is known and tightened to an interval above the base, the
\* other is unknown and was asked to tighten too
C20_Witness ==
    /\ cap.display_ids = {1}
    /\ display_intervals[1] = MaxInterval
    /\ cap.requested[2] = 1

----------------------------------------------------------------------------
(* C26 *)

\* the calls of t and u both sent a reminder for the same violation
RemindedSame(t, u) ==
    /\ t # u
    /\ Issued(t, "reminder") >= 1
    /\ Issued(u, "reminder") >= 1
    /\ loc[t].d = loc[u].d
    /\ loc[t].seen.first_detected = loc[u].seen.first_detected

\* C26: under any interleaving of the classification and idle paths, a call
\* sends a reminder only when now - last_notified >= reminder_interval, and
\* two reminders for the same violation are at least reminder_interval
\* apart.
C26_RemindersSpaced ==
    /\ \A t \in Threads :
          Issued(t, "reminder") >= 1
          => loc[t].now - loc[t].seen.last_notified >= ReminderInterval
    /\ \A t, u \in Threads :
          RemindedSame(t, u)
          => \/ loc[t].now - loc[u].now >= ReminderInterval
             \/ loc[u].now - loc[t].now >= ReminderInterval

----------------------------------------------------------------------------
(* C27 *)

\* the decision the grace and reminder timing gives for a violation v at now
Decision(v, now) ==
    IF InGraceWindow(now) THEN "suppress"
    ELSE IF now - v.first_detected >= ViolationGrace THEN "lock"
    ELSE IF now - v.last_notified >= ReminderInterval THEN "remind"
    ELSE "noop"

\* what the returned call of t did, read from its commands and from the
\* violation map
Outcome(t) ==
    IF Issued(t, "lock") > 0 THEN "lock"
    ELSE IF Issued(t, "reminder") > 0 THEN "remind"
    ELSE IF violations[loc[t].d] = NoViolation THEN "suppress"
    ELSE "noop"

\* C27: with an active violation, an idle signal and a qualifying
\* entertainment result handled at the same time make the same transition:
\* both calls take the decision the timing gives, and leave the violation
\* map and the capture interval that decision gives.
C27_IdleAsFrame ==
    \A t \in Threads :
        (Returned(t) /\ PolicyCall(t) /\ loc[t].seen # NoViolation)
        => LET d == loc[t].d
               v == loc[t].seen
               dec == Decision(v, loc[t].now)
           IN  /\ Outcome(t) = dec
               /\ Issued(t, "warning") = 0
               /\ Issued(t, "tighten") = 0
               /\ Issued(t, "lock") + Issued(t, "reminder") <= 1
               /\ violations[d] =
                     CASE dec \in {"suppress", "lock"} -> NoViolation
                       [] dec = "remind" -> [v EXCEPT !.last_notified = loc[t].now]
                       [] OTHER -> v
               /\ dec \in {"suppress", "lock"}
                  => (Known(d) => display_intervals[d] = BaseInterval)
               /\ dec \in {"remind", "noop"} => Issued(t, "restore") = 0

\* the idle path locked at elapsed = violation_grace exactly, where the
\* classification path locks too
C27_Witness ==
    /\ Returned("watchdog")
    /\ loc["watchdog"].call = "idle"
    /\ loc["watchdog"].seen # NoViolation
    /\ loc["watchdog"].now - loc["watchdog"].seen.first_detected = ViolationGrace
    /\ Outcome("watchdog") = "lock"
    /\ Known(loc["watchdog"].d)

----------------------------------------------------------------------------
(* C22 *)

\* C22: whenever the capture loop is about to run a pass, every display it
\* knows whose last capture ended at least the display's interval ago is in
\* the due set of the pass.
C22_DueWithinInterval ==
    (cap.loop = "test" /\ ~cap.stop_event)
    => \A d \in cap.display_ids :
          (d \in cap.captured /\ cap.done[d] >= display_intervals[d])
          => d \in Due(cap, display_intervals)

\* a pass is about to run a tightened interval after the end of the last
\* capture of display 1, sooner than the base interval, and display 1 is due
C22_Witness ==
    /\ cap.loop = "test"
    /\ ~cap.stop_event
    /\ 1 \in cap.display_ids
    /\ 1 \in cap.captured
    /\ display_intervals[1] = ViolationCaptureInterval
    /\ cap.done[1] = ViolationCaptureInterval
    /\ cap.done[1] < BaseInterval
    /\ 1 \in Due(cap, display_intervals)

----------------------------------------------------------------------------
(* C28 *)

\* the displays that are due when a pass starts: now - last_capture >=
\* current_interval
DueAtStart ==
    {d \in cap.display_ids : cap.since[d] >= display_intervals[d]}

\* C28: the due set of a pass, empty or not, is the set of the known
\* displays with now - last_capture >= current interval at its start; a
\* pass that ends without the stop event set has attempted the capture of
\* every display of its due set, a display the pass itself saw removed
\* included; and no pass attempts the capture of a display twice.
C28_DueCapturedOncePerPass ==
    [][/\ (cap.loop = "test" /\ cap'.loop = "due") => cap'.pass.due = DueAtStart
       /\ (cap.loop = "test" /\ ~cap.stop_event)
          => Due(cap, display_intervals) = DueAtStart
       /\ (cap.loop = "due" /\ cap'.loop = "test")
          => \/ cap.stop_event
             \/ \A d \in cap.pass.due : cap.pass.tried[d] = 1
       /\ \A d \in Displays : cap'.pass.tried[d] <= 1]_vars

\* a pass with both displays due has ended without the stop event and has
\* attempted both captures
C28_Witness ==
    /\ cap.loop = "test"
    /\ ~cap.stop_event
    /\ cap.pass.due = Displays
    /\ \A d \in Displays : cap.pass.tried[d] = 1

----------------------------------------------------------------------------
(* C29 *)

\* the message is one of the topology errors: an invalid display, in either
\* wording of screencapture, a missing display index, or no displays
TopologyError(text) ==
    \/ "invalid display" \in text
    \/ {"only", "valid value"} \subseteq text
    \/ "missing display index" \in text
    \/ "no displays" \in text

\* C29: once start() has succeeded, an enumeration is made after a capture
\* error or while no display is known; after a capture error it comes at
\* least 0.5 s after the enumeration before it and the error's message is
\* one of the topology errors; while no display is known it comes at least
\* 2 s after the enumeration before it.
C29_RefreshRateLimited ==
    [][(cap.started = "running" /\ cap'.probe.flip # cap.probe.flip)
       => /\ cap'.probe.cause \in {"error", "empty"}
          /\ cap'.probe.cause = "error"
             => /\ cap.probe_age >= RefreshThrottle
                /\ TopologyError(cap'.probe.text)
          /\ cap'.probe.cause = "empty"
             => /\ cap.probe_age >= RefreshBackoff
                /\ cap.display_ids = {}]_vars

\* after several captures, an error in screencapture's wording has led to an
\* enumeration
C29_Witness ==
    /\ cap.probe.cause = "error"
    /\ cap.probe.text = {"only", "valid value"}
    /\ cap.attempts = MaxCaptures
    /\ cap.started = "running"

----------------------------------------------------------------------------
(* C30 *)

\* C30: once start() has succeeded, the capture loop ends only after the
\* stop event is set; while no display is known and the stop event is not
\* set, another enumeration follows; the displays an enumeration returns are
\* the known displays, each with an interval and a last capture; and a known
\* display has its capture started, unless the stop event is set or an
\* enumeration removes it first.
C30_EmptySetNotFatal ==
    /\ [](cap.loop = "exited" => cap.stop_event)
    /\ [](cap.started = "running"
          => /\ DOMAIN display_intervals = cap.display_ids
             /\ cap.last_capture = cap.display_ids
             /\ cap.display_indices = cap.display_ids)
    /\ \A b \in BOOLEAN :
          (cap.started = "running" /\ cap.display_ids = {}
           /\ ~cap.stop_event /\ cap.probe.flip = b)
          ~> (cap.stop_event \/ cap.probe.flip # b)
    /\ \A d \in Displays :
          (cap.started = "running" /\ d \in cap.display_ids /\ ~cap.stop_event)
          ~> \/ cap.stop_event
             \/ d \notin cap.display_ids
             \/ cap.loop = "capturing" /\ cap.cur = d

\* an enumeration made while no display was known has returned display 2,
\* whose capture is in progress
C30_Witness ==
    /\ cap.probe.cause = "empty"
    /\ ~cap.stop_event
    /\ cap.display_ids = {2}
    /\ cap.loop = "capturing"
    /\ cap.cur = 2

----------------------------------------------------------------------------
(* C21 *)

\* C21: a display that the last enumeration does not list has no interval,
\* no last capture and no index in the scheduler, and no last sample in the
\* processor.
C21_RemovedTargetPurged ==
    \A d \in Displays :
        d \notin cap.display_ids
        => /\ d \notin DOMAIN display_intervals
           /\ d \notin cap.last_capture
           /\ d \notin cap.display_indices
           /\ proc.last_sample[d] = 0

----------------------------------------------------------------------------
(* C23 *)

\* C23: between two frames of a display, and before its first, the watchdog
\* logs at most one idle warning for it, and it has logged one once it has
\* visited the display more than the idle window after the last frame.
C23_WarnedOncePerIdlePeriod ==
    \A d \in cap.displays :
        /\ cap.warnings[d] <= 1
        /\ (cap.visit.d = d /\ cap.visit.silence > WatchdogWindow)
           => cap.warnings[d] = 1

----------------------------------------------------------------------------
(* C24 *)

\* C24: a visit of the watchdog to a display whose last frame is older than
\* the idle window invokes the idle callback for the display.
C24_IdleCallbackEveryCycle ==
    (cap.visit.d \in cap.displays /\ cap.visit.silence > WatchdogWindow)
    => cap.visit.called

----------------------------------------------------------------------------
(* C25 *)

\* C25: the watchdog attempts a restart of the stream of a display only in
\* a visit that finds the display idle for more than the window, and at
\* least the restart backoff after the last restart attempt for the display
\* or, without one, after the opening of its stream.
C25_RestartBackoff ==
    cap.visit.restarted
    => /\ cap.visit.idle > WatchdogWindow
       /\ cap.visit.attempt_age >= RestartBackoff

\* the second restart attempt for display 1 without a frame in between
C25_Witness ==
    /\ cap.visit.restarted
    /\ cap.visit.d = 1
    /\ cap.warnings[1] = 2

----------------------------------------------------------------------------
(* C31 *)

\* C31: whatever an enumeration returns, the displays it adds have the base
\* interval and a last capture one base interval back when
\* _refresh_displays returns; and whenever the capture loop is about to
\* compute its due displays, every display added since it last did is due.
C31_AddedTargetDueAtOnce ==
    /\ \A found \in SUBSET Displays :
          \A d \in found \ cap.display_ids :
             /\ RefreshedIntervals(display_intervals, found)[d] = BaseInterval
             /\ d \in RefreshedScheduler(cap, found).last_capture
             /\ RefreshedScheduler(cap, found).since[d] = BaseInterval
    /\ (cap.loop = "test" /\ ~cap.stop_event)
       => cap.fresh \subseteq Due(cap, display_intervals)

----------------------------------------------------------------------------
(* C32 *)

\* C32: once shutdown() has set the stop event, the worker thread ends; it
\* ends only after the stop event is set or by an exception of the policy;
\* and a worker that tests the stop event after it is set takes no further
\* frame, whether the queue is empty or not.
C32_WorkerTerminates ==
    /\ proc.stop_event ~> proc.worker \in {"exited", "dead"}
    /\ [](proc.worker = "exited" => proc.stop_event)
    /\ [][(proc.stop_event /\ proc.worker = "test" /\ proc'.worker # "test")
          => proc'.worker = "exited"]_vars

\* the worker has ended after the stop event, with a frame left on the queue
C32_Witness ==
    /\ proc.stop_event
    /\ proc.worker = "exited"
    /\ proc.task_queue # <<>>

----------------------------------------------------------------------------
(* C33 *)

\* the step ends a capture of display d that returned no PNG
FailedCapture(d) ==
    /\ cap.loop = "capturing"
    /\ cap.cur = d
    /\ cap'.loop = "due"
    /\ d \in cap'.pass.failed

\* C33: the end of a failed capture hands no frame to the frame handler; it
\* enumerates the displays only for a topology error; without an
\* enumeration it leaves the displays, the indices, the intervals, the stop
\* event and every last capture but the display's own as they are; a display
\* that is known before and after it keeps its interval; and a display that
\* is known after it has its last capture at the end of the failed capture,
\* so that it is not due now and due one interval later.
C33_FailedCaptureRetried ==
    [][\A d \in Displays :
          FailedCapture(d)
          => /\ d \notin cap'.pass.handed
             /\ cap'.probe # cap.probe => TopologyError(cap'.probe.text)
             /\ cap'.probe = cap.probe
                => /\ cap'.display_ids = cap.display_ids
                   /\ cap'.display_indices = cap.display_indices
                   /\ cap'.last_capture = cap.last_capture
                   /\ display_intervals' = display_intervals
                   /\ cap'.stop_event = cap.stop_event
                   /\ cap'.age = cap.age
                   /\ \A e \in Displays \ {d} : cap'.since[e] = cap.since[e]
             /\ (d \in cap.display_ids /\ d \in cap'.display_ids)
                => display_intervals'[d] = display_intervals[d]
             /\ d \in cap'.display_ids
                => /\ cap'.since[d] = 0
                   /\ d \notin Due(cap', display_intervals')
                   /\ d \in Due([cap' EXCEPT !.since[d] = display_intervals'[d]],
                               display_intervals')]_vars

\* the capture of display 1 has failed with an error that is not one of
\* topology, and display 1 is still known, at a tightened interval
C33_Witness ==
    /\ cap.loop = "due"
    /\ 1 \in cap.pass.failed
    /\ cap.probe.cause = "start"
    /\ 1 \in cap.display_ids
    /\ cap.since[1] = 0
    /\ display_intervals[1] = ViolationCaptureInterval

----------------------------------------------------------------------------
(* C34 *)

\* C34: between the calls of the policy, every display that has a violation
\* and that the scheduler knows has the violation capture interval.
C34_TightenedWhileViolating ==
    Quiet
    => \A d \in Displays :
          (violations[d] # NoViolation /\ d \in DOMAIN display_intervals)
          => display_intervals[d] = ViolationCaptureInterval

----------------------------------------------------------------------------
(* C35 *)

\* C35: the display list, the index map, the interval map and the
\* last-capture map have the same displays in every state; and whatever an
\* enumeration returns, a display known before and after it keeps its
\* interval and its last capture.
C35_MapsAgree ==
    /\ cap.display_indices = cap.display_ids
    /\ cap.last_capture = cap.display_ids
    /\ DOMAIN display_intervals = cap.display_ids
    /\ \A found \in SUBSET Displays :
          \A d \in found \cap cap.display_ids :
             /\ RefreshedIntervals(display_intervals, found)[d] = display_intervals[d]
             /\ d \in RefreshedScheduler(cap, found).last_capture
             /\ RefreshedScheduler(cap, found).since[d] = cap.since[d]

\* an enumeration of the capture loop has added display 2 next to display 1,
\* which has a tightened interval and a capture behind it
C35_Witness ==
    /\ cap.display_ids = {1, 2}
    /\ cap.fresh = {2}
    /\ cap.probe.cause = "error"
    /\ cap.stop = "none"
    /\ display_intervals[1] = ViolationCaptureInterval
    /\ 1 \in cap.captured
    /\ cap.since[1] < BaseInterval

----------------------------------------------------------------------------
(* C36 *)

\* C36: a display whose stream was reported stopped, which is then in none
\* of the maps, has no stream and no idle-notified flag, and a visit of the
\* watchdog to it neither attempts a restart nor invokes the idle callback.
C36_StoppedStreamForgotten ==
    \A d \in Displays \ cap.displays :
        /\ d \notin cap.streams
        /\ ~cap.idle_notified[d]
        /\ cap.visit.d = d => (~cap.visit.restarted /\ ~cap.visit.called)

----------------------------------------------------------------------------
(* C37 *)

\* the call of the worker handled a result with label entertainment and a
\* confidence of at least the threshold
QualifyingCall ==
    /\ loc["worker"].call = "handled"
    /\ Qualifies(Lower(loc["worker"].label), loc["worker"].confidence)

\* now is before off_hours_start or after off_hours_start + off_hours_grace
OutsideGraceWindow(now) ==
    now < OffHoursStart \/ now > OffHoursStart + OffHoursGrace

\* C37: workday_cutoff has no effect.  A qualifying result handled at a
\* time outside [off_hours_start, off_hours_start + off_hours_grace], be it
\* before workday_cutoff or after it, is never suppressed: without a
\* violation it emits the warning and creates one, with a violation it locks
\* once the grace has passed, else reminds once the reminder is due.  The
\* transition relation reads no cutoff, so that two runs that differ in it
\* alone take the same steps.
C37_CutoffIgnored ==
    (pc["worker"] = "ret" /\ QualifyingCall /\ OutsideGraceWindow(loc["worker"].now)) =>
        LET l == loc["worker"]
            seen == l.seen
        IN  /\ l.path \in {"create", "lock", "remind", "noop"}
            /\ l.path = "create" <=> seen = NoViolation
            /\ l.path = "create" =>
                  /\ l.out \in {<<"warning">>, <<"warning", "tighten">>}
            /\ l.path = "lock" <=>
                  /\ seen # NoViolation
                  /\ l.now - seen.first_detected >= ViolationGrace
            /\ l.path = "lock" => "lock" \in {l.out[i] : i \in 1..Len(l.out)}
            /\ l.path = "remind" <=>
                  /\ seen # NoViolation
                  /\ l.now - seen.first_detected < ViolationGrace
                  /\ l.now - seen.last_notified >= ReminderInterval
            /\ l.path = "remind" => l.out = <<"reminder">>

\* a violation created before off_hours_start, and so before the cutoff, is
\* locked by a result handled after the window has ended
C37_Witness ==
    /\ pc["worker"] = "ret"
    /\ QualifyingCall
    /\ loc["worker"].path = "lock"
    /\ loc["worker"].seen.first_detected < WorkdayCutoff
    /\ loc["worker"].seen.first_detected < OffHoursStart
    /\ loc["worker"].now > OffHoursStart + OffHoursGrace

----------------------------------------------------------------------------
(* C38 *)

\* the results of the calls under EnforceSpec: one that counts as
\* entertainment and one that does not
EnforceTexts ==
    {[form |-> "bare", json |-> [type |-> "object", label |-> Str("entertainment"), confidence |-> Num(60)]],
     [form |-> "bare", json |-> [type |-> "object", label |-> Str("work"), confidence |-> Num(60)]]}

EnforceResult ==
    /\ Quiet
    /\ \E d \in Displays, text \in EnforceTexts : WorkerStart(d, text)

EnforceNext ==
    \/ EnforceResult
    \/ SerialIdleStart
    \/ SerialTick
    \/ HandlerStep

\* The policy with time that passes and handlers that run to their end: a
\* call in progress takes its next step (the thread keeps running), and the
\* clock, which no call holds back in the program, advances up to MaxClock.
EnforceSpec ==
    /\ Init
    /\ [][EnforceNext]_vars
    /\ WF_vars(HandlerStep)
    /\ SF_vars(SerialTick)

\* the worker has handled a qualifying result of display d outside the window
QualifyingHandled(d) ==
    /\ pc["worker"] = "ret"
    /\ loc["worker"].d = d
    /\ QualifyingCall
    /\ OutsideGraceWindow(loc["worker"].now)

\* the worker handles a result of display d that does not qualify
BenignHandled(d) ==
    loc["worker"].d = d /\ loc["worker"].path = "benign"

\* a call for display d is suppressed by the off-hours window
SuppressedHandled(d) ==
    \E t \in Threads : loc[t].d = d /\ loc[t].path = "offhours"

\* display d has a violation whose grace ends within the modelled time
GraceRunning(d) ==
    /\ violations[d] # NoViolation
    /\ violations[d].first_detected + ViolationGrace <= MaxClock

\* a call for display d has run the lock command
LockFired(d) ==
    \E t \in Threads :
        /\ loc[t].d = d
        /\ loc[t].path = "lock"
        /\ "lock" \in {loc[t].out[i] : i \in 1..Len(loc[t].out)}

\* C38: if display d keeps producing qualifying results outside the window,
\* and no result of d is benign or falls into the window, every violation of
\* d leads to the lock command; once a call that locked has returned, d has
\* no violation, and a violation of d appears only by the worker's handling
\* of a qualifying result outside the window, after it has sent the warning,
\* with first_detected and last_notified at the time of that result.
C38_LockThenNewViolation ==
    /\ \A d \in Displays :
          ([]<>QualifyingHandled(d) /\ []~BenignHandled(d) /\ []~SuppressedHandled(d))
             => (GraceRunning(d) ~> LockFired(d))
    /\ [](\A t \in Threads :
             (pc[t] = "ret" /\ loc[t].path = "lock") => violations[loc[t].d] = NoViolation)
    /\ [][\A d \in Displays :
             (violations[d] = NoViolation /\ violations'[d] # NoViolation) =>
                /\ pc["worker"] = "create"
                /\ loc["worker"].d = d
                /\ QualifyingCall
                /\ OutsideGraceWindow(loc["worker"].now)
                /\ loc["worker"].now = clock
                /\ loc["worker"].out = <<"warning">>
                /\ violations'[d].first_detected = clock
                /\ violations'[d].last_notified = clock
                /\ violations'[d].locks = 0]_vars

\* the worker has locked display 1, whose violation it then removed, on a
\* result that came a full grace after the first one
C38_Witness ==
    /\ pc["worker"] = "ret"
    /\ loc["worker"].d = 1
    /\ QualifyingCall
    /\ loc["worker"].path = "lock"
    /\ loc["worker"].now - loc["worker"].seen.first_detected = ViolationGrace
    /\ violations[1] = NoViolation

====
